---- MODULE Spec2Model ----
(***************************************************************************)
(* A model of the gravitation game: the raster level map and its footprint *)
(* scan (level.py), the entity/physics components (entity.py), the ship     *)
(* (spaceship.py), the ghost recorder/player (ghost_system.py), the timer   *)
(* (timer.py) and the game state manager that drives them                  *)
(* (game_state_manager.py).                                                 *)
(*                                                                         *)
(* Numbers.  Python floats are modelled as fixed-point integers counting   *)
(* 1/Scale of a pixel (positions) or of a pixel per tick (velocities).     *)
(* Pixel indices, image sizes, rotations (degrees) and times (ms) are      *)
(* plain integers.                                                         *)
(***************************************************************************)
EXTENDS Integers, Sequences, FiniteSets, TLC

VARIABLES
    probe,            \* Level under test and the last query made of it (SpecLevel)
    screen,           \* GameStateManager.screen_width / screen_height
    current_state,    \* GameStateManager.current_state
    current_level,    \* GameStateManager.current_level (None or a Level)
    spaceship,        \* GameStateManager.spaceship (None or a Spaceship)
    selected_level,   \* GameStateManager.selected_level (None or a level name)
    level_completed,  \* GameStateManager.level_completed
    ghost_recorder,   \* GameStateManager.ghost_recorder
    ghost_playback,   \* GameStateManager.ghost_playback
    ghost,            \* GameStateManager.ghost (None or a Ghost)
    timer,            \* GameStateManager.timer
    input_manager,    \* GameStateManager.input_manager (the debounce clocks)
    best_ghosts,      \* GameStateManager.best_ghosts (level name -> frames)
    scoreboard,       \* GameStateManager.scoreboard (level name -> user -> time text)
    username,         \* GameStateManager.username (None or a name)
    menu_state,       \* GameStateManager.menu_state (None or a MenuState)
    session,          \* GameStateManager.session: the remote store and the puts made
    now,              \* pygame.time.get_ticks()
    call,             \* the last method called on the manager, with its arguments
    raised,           \* the exception that call ended with, or "none"
    calls             \* how many ticks, inputs and level entries were made (bounded)

vars == <<probe, screen, current_state, current_level, spaceship, selected_level,
          level_completed, ghost_recorder, ghost_playback, ghost, timer,
          input_manager, best_ghosts, scoreboard, username, menu_state,
                   session, now, call, raised, calls>>

gameVars == <<screen, current_state, current_level, spaceship, selected_level,
              level_completed, ghost_recorder, ghost_playback, ghost, timer,
              input_manager, best_ghosts, scoreboard, username, menu_state,
                   session, now, call, raised, calls>>

\* Python's None where an object is expected (a record), where a level
\* name is expected (a string) and where a position is expected (a tuple).
None == [none |-> TRUE]

NoName == "None"

NoPosition == << >>

(***************************************************************************)
(* Fixed point                                                             *)
(***************************************************************************)
\* Units per pixel: 0.12 and 0.25 are whole numbers of hundredths.
Scale == 10 * 10

\* Half a pixel.
Half == Scale \div 2

\* A whole number of pixels as a fixed-point value.
Px(n) == n * Scale

\* Python int(): truncation toward zero, giving a pixel index.
ToInt(v) == IF v >= 0 THEN v \div Scale ELSE -((-v) \div Scale)

Abs(v) == IF v < 0 THEN -v ELSE v

Max2(a, b) == IF a >= b THEN a ELSE b

Min2(a, b) == IF a <= b THEN a ELSE b

(***************************************************************************)
(* level.py: the collision map                                             *)
(***************************************************************************)
Black == <<0, 0, 0>>
White == <<255, 255, 255>>
Green == <<0, 255, 0>>
Red == <<255, 0, 0>>
Blue == <<0, 0, 255>>
\* Two colours outside the palette: a mid grey and an off-by-one blue.
Grey == <<128, 128, 128>>
NearBlue == <<0, 0, 254>>

\* Level.COLLISION_COLORS, in the dict's insertion order.
COLLISION_COLORS ==
    << [type |-> "SOLID", color |-> Black],
       [type |-> "FREE", color |-> White],
       [type |-> "GOAL", color |-> Green],
       [type |-> "HAZARD", color |-> Red],
       [type |-> "SPECIAL", color |-> Blue] >>

\* A Level: width, height and the RGB of every pixel, held as a background
\* colour plus the pixels painted over it.
MkLevel(w, h, bg, painted) ==
    [width |-> w, height |-> h, bg |-> bg, painted |-> painted]

\* collision_surface.get_at((x, y))[:3] for an in-bounds pixel index.
get_at(level, x, y) ==
    IF <<x, y>> \in DOMAIN level.painted THEN level.painted[<<x, y>>] ELSE level.bg

\* The for-loop over COLLISION_COLORS.items(): the first exact match wins.
RECURSIVE MatchColorFrom(_, _)
MatchColorFrom(pixel_color, k) ==
    IF k > Len(COLLISION_COLORS) THEN "SOLID"
    ELSE IF pixel_color = COLLISION_COLORS[k].color THEN COLLISION_COLORS[k].type
    ELSE MatchColorFrom(pixel_color, k + 1)

MatchColorNoFallback(pixel_color) ==
    IF \E k \in 1..Len(COLLISION_COLORS) : COLLISION_COLORS[k].color = pixel_color
    THEN MatchColorFrom(pixel_color, 1)
    ELSE "FREE"

MatchColor(pixel_color) == MatchColorFrom(pixel_color, 1)

OutOfBoundsLoose(level, x, y) ==
    x < 0 \/ x > level.width * Scale \/ y < 0 \/ y > level.height * Scale

\* The bounds test of check_collision_at_point (x, y fixed-point).
OutOfBounds(level, x, y) ==
    x < 0 \/ x >= level.width * Scale \/ y < 0 \/ y >= level.height * Scale

\* Level.check_collision_at_point(x, y), x and y fixed-point.  Inside the
\* bounds get_at cannot raise, so the except clause is never taken.
check_collision_at_point(level, x, y) ==
    IF OutOfBounds(level, x, y) THEN "SOLID"
    ELSE MatchColor(get_at(level, ToInt(x), ToInt(y)))

\* Level.is_solid_collision
is_solid_collision(level, x, y) == check_collision_at_point(level, x, y) = "SOLID"

\* Level.is_special_collision
is_special_collision(level, x, y) == check_collision_at_point(level, x, y) = "SPECIAL"

\* The pixel indices of a w by h image.
Cells(w, h) == (0..(w - 1)) \X (0..(h - 1))

\* A surface with per-pixel alpha: [w, h, alpha], alpha a function on
\* Cells(w, h).
MkSurface(w, h, alpha) == [w |-> w, h |-> h, alpha |-> alpha]

OpaqueOnly(a) == a >= 255

AnyAlpha(a) == a >= 0

\* "if spaceship_alpha > 0": the pixel takes part in the collision test.
NonTransparent(a) == a > 0

\* The early return of check_spaceship_collisions: the sprite's box lies
\* wholly outside the map.
NoOverlap(level, surface, sx, sy) ==
    sx >= level.width * Scale \/ sy >= level.height * Scale
    \/ sx + surface.w * Scale <= 0 \/ sy + surface.h * Scale <= 0

\* Mutant of ScanBox: the scanned rectangle is the sprite's whole box, not
\* clipped to the map.
ScanBoxUnclipped(level, surface, sx, sy) ==
    [x_int |-> ToInt(sx),
     y_int |-> ToInt(sy),
     start_x |-> ToInt(sx),
     start_y |-> ToInt(sy),
     nx |-> surface.w,
     ny |-> surface.h]

\* The rectangle of map cells the scan of check_spaceship_collisions
\* visits: int() of the origin, the clipped start and the clipped extent.
ScanBox(level, surface, sx, sy) ==
    [x_int |-> ToInt(sx),
     y_int |-> ToInt(sy),
     start_x |-> Max2(0, ToInt(sx)),
     start_y |-> Max2(0, ToInt(sy)),
     nx |-> Max2(0, Min2(level.width, ToInt(sx) + surface.w) - Max2(0, ToInt(sx))),
     ny |-> Max2(0, Min2(level.height, ToInt(sy) + surface.h) - Max2(0, ToInt(sy)))]

\* The flags after one map cell of class collision_type has been seen.
Flagged(acc, collision_type) ==
    << acc[1] \/ collision_type = "SOLID",
       acc[2] \/ collision_type = "SPECIAL",
       acc[3] \/ collision_type = "HAZARD" >>

\* The two nested range loops of check_spaceship_collisions, walked as one
\* index k with level_x outermost; acc is (solid, special, hazard) so far.
\* The scan returns as soon as a solid cell has been seen.
RECURSIVE ScanFrom(_, _, _, _, _)
ScanFrom(level, surface, box, k, acc) ==
    IF acc[1] \/ k >= box.nx * box.ny THEN acc
    ELSE IF (box.start_x + (k \div box.ny)) - box.x_int \notin 0..(surface.w - 1)
            \/ (box.start_y + (k % box.ny)) - box.y_int \notin 0..(surface.h - 1)
    THEN ScanFrom(level, surface, box, k + 1, acc)
    ELSE IF NonTransparent(surface.alpha[<<(box.start_x + (k \div box.ny)) - box.x_int,
                                           (box.start_y + (k % box.ny)) - box.y_int>>])
    THEN ScanFrom(level, surface, box, k + 1,
                  Flagged(acc, check_collision_at_point(
                                 level, Px(box.start_x + (k \div box.ny)),
                                 Px(box.start_y + (k % box.ny)))))
    ELSE ScanFrom(level, surface, box, k + 1, acc)

\* Level.check_spaceship_collisions(surface, sx, sy), sx and sy fixed-point.
\* The result is the 3-tuple (solid, special, hazard).
check_spaceship_collisions(level, surface, sx, sy) ==
    IF NoOverlap(level, surface, sx, sy) THEN <<FALSE, FALSE, FALSE>>
    ELSE ScanFrom(level, surface, ScanBox(level, surface, sx, sy), 0,
                  <<FALSE, FALSE, FALSE>>)

(***************************************************************************)
(* entity.py: Transform, Physics, Renderer, Entity                         *)
(***************************************************************************)
\* Rounded quotient, for the trigonometric tables.
RoundDiv(a, b) ==
    IF a >= 0 THEN (a + (b \div 2)) \div b ELSE -(((-a) + (b \div 2)) \div b)

\* 1000 * sin of 0, 6, ..., 90 degrees.
SinTable == <<0, 105, 208, 309, 407, 500, 588, 669, 743, 809, 866, 914, 951, 978, 995, 1000>>

\* 1000 * math.sin(math.radians(d)) for d a multiple of 6.
Sin1000(d) ==
    LET r == d % 360
        Up(a) == SinTable[((IF a <= 90 THEN a ELSE 180 - a) \div 6) + 1]
    IN IF r <= 180 THEN Up(r) ELSE -Up(r - 180)

\* 1000 * math.cos(math.radians(d))
Cos1000(d) == Sin1000(d + 90)

\* pygame.transform.rotate(original_image, -rotation): the image turned
\* clockwise by `rotation` degrees.  A multiple of 90 degrees permutes the
\* pixels exactly.  For any other angle the library returns a larger box
\* with transparent corners; it is modelled as the image of the last
\* quarter turn inside a one-pixel transparent border.
QuarterTurn(img, q) ==
    IF q = 0 THEN img
    ELSE IF q = 1 THEN
        MkSurface(img.h, img.w,
                  [p \in Cells(img.h, img.w) |-> img.alpha[<<p[2], img.h - 1 - p[1]>>]])
    ELSE IF q = 2 THEN
        MkSurface(img.w, img.h,
                  [p \in Cells(img.w, img.h) |-> img.alpha[<<img.w - 1 - p[1], img.h - 1 - p[2]>>]])
    ELSE
        MkSurface(img.h, img.w,
                  [p \in Cells(img.h, img.w) |-> img.alpha[<<img.w - 1 - p[2], p[1]>>]])

Padded(img) ==
    MkSurface(img.w + 2, img.h + 2,
              [p \in Cells(img.w + 2, img.h + 2) |->
                 IF p[1] \in 1..img.w /\ p[2] \in 1..img.h
                 THEN img.alpha[<<p[1] - 1, p[2] - 1>>] ELSE 0])

transform_rotate(original_image, rotation) ==
    LET r == rotation % 360
        turned == QuarterTurn(original_image, r \div 90)
    IN IF r % 90 = 0 THEN turned ELSE Padded(turned)

\* Mutant of Normalize: the angle is stored as given.
NoNormalize(rotation) == rotation

\* Transform.set_rotation / Transform.rotate: "% 360".
Normalize(rotation) == rotation % 360

\* An entity: Transform (x, y, rotation), Physics (velocity, bounds,
\* previous position) and Renderer (original and current image).
MkEntity(x, y, rotation, image) ==
    [x |-> x, y |-> y, rotation |-> rotation,
     velocity_x |-> 0, velocity_y |-> 0,
     max_velocity |-> 15 * Scale, min_velocity |-> -(15 * Scale),
     prev_x |-> 0, prev_y |-> 0,
     original_image |-> image,
     current_image |-> transform_rotate(image, rotation)]

\* Entity.set_position
set_position(e, x, y) == [e EXCEPT !.x = x, !.y = y]

\* Entity.set_velocity
set_velocity(e, vx, vy) == [e EXCEPT !.velocity_x = vx, !.velocity_y = vy]

\* Renderer.update_rotation
update_rotation(e) ==
    [e EXCEPT !.current_image = transform_rotate(e.original_image, e.rotation)]

\* Entity.set_rotation
set_rotation(e, rotation) == update_rotation([e EXCEPT !.rotation = Normalize(rotation)])

\* Physics.add_velocity
add_velocity(e, dx, dy) ==
    [e EXCEPT !.velocity_x = @ + dx, !.velocity_y = @ + dy]

\* Physics.clamp_velocity
clamp_velocity(e) ==
    [e EXCEPT !.velocity_x = Max2(e.min_velocity, Min2(e.max_velocity, @)),
              !.velocity_y = Max2(e.min_velocity, Min2(e.max_velocity, @))]

IntegrateTwice(e, delta_time) ==
    [e EXCEPT !.prev_x = e.x, !.prev_y = e.y,
              !.x = e.x + 2 * e.velocity_x * delta_time,
              !.y = e.y + 2 * e.velocity_y * delta_time]

\* Mutant of update_physics: the position is not remembered.
IntegrateWithoutStoring(e, delta_time) ==
    [e EXCEPT !.x = e.x + e.velocity_x * delta_time,
              !.y = e.y + e.velocity_y * delta_time]

\* Entity.update_physics: remember the position, then integrate.
update_physics(e, delta_time) ==
    [e EXCEPT !.prev_x = e.x, !.prev_y = e.y,
              !.x = e.x + e.velocity_x * delta_time,
              !.y = e.y + e.velocity_y * delta_time]

\* Entity.rollback_position
rollback_position(e) == set_position(e, e.prev_x, e.prev_y)

(***************************************************************************)
(* spaceship.py                                                            *)
(***************************************************************************)
\* Spaceship.GRAVITY = 0.12 and THRUST_POWER = 0.25, in hundredths.
GRAVITY == 12
THRUST_POWER == 25
\* Degrees per input step.
ROTATION_SPEED == 6
\* Pixels per tick.
MAX_VELOCITY == 15
MIN_VELOCITY == -15
\* Pixels.
START_X_OFFSET == 1300
START_Y == 2450

\* Mutant of reset_to_start: the velocity is not reset.
ResetKeepsVelocity(s) ==
    set_rotation(set_position(s, Px(START_X_OFFSET - (s.original_image.w \div 2)),
                              Px(START_Y)), 0)

\* Spaceship.reset_to_start
reset_to_start(s) ==
    LET start_x == START_X_OFFSET - (s.original_image.w \div 2)
    IN set_rotation(set_velocity(set_position(s, Px(start_x), Px(START_Y)), 0, 0), 0)

\* Spaceship.__init__
NewSpaceship(image) ==
    reset_to_start([MkEntity(0, 0, 0, image) EXCEPT
                      !.max_velocity = Px(MAX_VELOCITY),
                      !.min_velocity = Px(MIN_VELOCITY)])

\* Spaceship.apply_thrust
apply_thrust(s, thrust_active) ==
    IF thrust_active
    THEN LET thrust_x == RoundDiv(THRUST_POWER * Sin1000(s.rotation), 1000)
             thrust_y == -RoundDiv(THRUST_POWER * Cos1000(s.rotation), 1000)
         IN add_velocity(s, thrust_x, thrust_y)
    ELSE s

\* Spaceship.apply_gravity
apply_gravity(s) == [s EXCEPT !.velocity_y = @ + GRAVITY]

\* Mutant of rotate: the rotation is rejected.
RotationRejected(s, delta_rotation) == s

\* Transform.rotate followed by Renderer.update_rotation
rotate(s, delta_rotation) ==
    update_rotation([s EXCEPT !.rotation = Normalize(s.rotation + delta_rotation)])

\* v * 0.5
TimesHalf(v) == ToInt(v * Half)

HandleCollisionBothAxes(s, bounce_x, bounce_y) ==
    LET bounced ==
          [s EXCEPT !.velocity_x = IF bounce_x \/ ~bounce_y THEN -@ ELSE @,
                    !.velocity_y = IF bounce_y \/ ~bounce_x THEN -@ ELSE @]
        back == rollback_position(bounced)
    IN [back EXCEPT !.velocity_x = TimesHalf(@), !.velocity_y = TimesHalf(@)]

\* Spaceship.handle_collision: if / elif / else on the bounce flags, then
\* rollback, then both components times 0.5 (a value that is odd in
\* hundredths is cut toward zero).
handle_collision(s, bounce_x, bounce_y) ==
    LET bounced ==
          IF bounce_x THEN [s EXCEPT !.velocity_x = -@]
          ELSE IF bounce_y THEN [s EXCEPT !.velocity_y = -@]
          ELSE [s EXCEPT !.velocity_x = -@, !.velocity_y = -@]
        back == rollback_position(bounced)
    IN [back EXCEPT !.velocity_x = TimesHalf(@), !.velocity_y = TimesHalf(@)]

\* Spaceship.get_collision_rect_info: the top-left corner of the rotated
\* image when it is centred where the original image is centred.
collision_origin(s, x, y) ==
    << x + Px((s.original_image.w \div 2) - (s.current_image.w \div 2)),
       y + Px((s.original_image.h \div 2) - (s.current_image.h \div 2)) >>

get_collision_rect_info(s) == collision_origin(s, s.x, s.y)

\* Spaceship.is_within_screen_bounds
is_within_screen_bounds(s, screen_width, screen_height) ==
    ~(s.x < 0
      \/ s.x + Px(s.original_image.w) > Px(screen_width)
      \/ s.y < 0
      \/ s.y + Px(s.original_image.h) > Px(screen_height))

\* Spaceship.get_boundary_collision_type
get_boundary_collision_type(s, screen_width, screen_height) ==
    << s.x < 0 \/ s.x + Px(s.original_image.w) > Px(screen_width),
       s.y < 0 \/ s.y + Px(s.original_image.h) > Px(screen_height) >>

\* Spaceship.update
update(s, delta_time) == update_physics(apply_gravity(s), delta_time)

\* "a, b = <tuple>": Python raises ValueError unless the tuple has exactly
\* two items.
UnpackTakesFirstTwo(t) == "none"

UnpackTwo(t) == IF Len(t) = 2 THEN "none" ELSE "ValueError"

\* "solid_collision, special_collision = <result>" followed by
\* "return solid_collision": [raised, value].
UnpackSolid(result) ==
    IF UnpackTwo(result) # "none"
    THEN [raised |-> UnpackTwo(result), value |-> FALSE]
    ELSE [raised |-> "none", value |-> result[1]]

\* Spaceship.check_collision_with_level: [raised, value].
check_collision_with_level(s, level) ==
    IF level # None
    THEN UnpackSolid(check_spaceship_collisions(level, s.current_image,
                                                get_collision_rect_info(s)[1],
                                                get_collision_rect_info(s)[2]))
    ELSE [raised |-> "none", value |-> FALSE]

\* Integer square root.
ISqrt(n) == CHOOSE r \in 0..n : r * r <= n /\ (r + 1) * (r + 1) > n

\* range(1, max_distance + 1, 2)
OddSteps(max_distance) ==
    [i \in 1..((max_distance + 1) \div 2) |-> 2 * i - 1]

\* The positions find_collision_free_position tries along the velocity:
\* none unless the speed exceeds 0.1; mag is the speed.
AlongVelocity(s, d, mag) ==
    IF mag * 10 > Scale
    THEN [i \in 1..Len(d) |->
            << s.x + RoundDiv(s.velocity_x * Px(d[i]), mag),
               s.y + RoundDiv(s.velocity_y * Px(d[i]), mag) >>]
    ELSE << >>

VelocityCandidates(s, max_distance) ==
    AlongVelocity(s, OddSteps(max_distance),
                  ISqrt(s.velocity_x * s.velocity_x + s.velocity_y * s.velocity_y))

COMPASS == <<0, 45, 90, 135, 180, 225, 270, 315>>

\* 1000 * cos and 1000 * sin of the eight compass angles.
CompassCos(a) ==
    IF a % 90 = 0 THEN Cos1000(a)
    ELSE IF a = 45 \/ a = 315 THEN 707 ELSE -707

CompassSin(a) ==
    IF a % 90 = 0 THEN Sin1000(a)
    ELSE IF a = 45 \/ a = 135 THEN 707 ELSE -707

\* The positions _expanding_circle_search tries, ring by ring.
RingCandidates(s, max_distance) ==
    [i \in 1..(Len(OddSteps(max_distance)) * Len(COMPASS)) |->
       << s.x + RoundDiv(Px(OddSteps(max_distance)[((i - 1) \div Len(COMPASS)) + 1])
                           * CompassCos(COMPASS[((i - 1) % Len(COMPASS)) + 1]), 1000),
          s.y + RoundDiv(Px(OddSteps(max_distance)[((i - 1) \div Len(COMPASS)) + 1])
                           * CompassSin(COMPASS[((i - 1) % Len(COMPASS)) + 1]), 1000) >>]

\* Spaceship._test_position_safe applied to the candidates in turn:
\* [raised, ship, value].  A test that raises leaves the ship at the
\* position under test.
RECURSIVE FirstSafe(_, _, _, _)
TestedCandidate(s, level, cands, k, c) ==
    IF c.raised # "none"
    THEN [raised |-> c.raised, ship |-> set_position(s, cands[k][1], cands[k][2]),
          value |-> NoPosition]
    ELSE IF ~c.value THEN [raised |-> "none", ship |-> s, value |-> cands[k]]
    ELSE FirstSafe(s, level, cands, k + 1)

FirstSafe(s, level, cands, k) ==
    IF k > Len(cands) THEN [raised |-> "none", ship |-> s, value |-> NoPosition]
    ELSE TestedCandidate(s, level, cands, k,
           check_collision_with_level(set_position(s, cands[k][1], cands[k][2]), level))

MAX_SEARCH_DISTANCE == 25

\* Spaceship.find_collision_free_position
find_collision_free_position(s, level) ==
    FirstSafe(s, level,
              VelocityCandidates(s, MAX_SEARCH_DISTANCE)
                \o RingCandidates(s, MAX_SEARCH_DISTANCE), 1)

\* The end of apply_rotation, safe being what the search returned.
Repositioned(rotated, safe) ==
    IF safe.raised # "none" THEN [raised |-> safe.raised, ship |-> safe.ship]
    ELSE IF safe.value # NoPosition
    THEN [raised |-> "none", ship |-> set_position(rotated, safe.value[1], safe.value[2])]
    ELSE [raised |-> "none", ship |-> rotated]

\* apply_rotation after the rotation itself, c being what
\* check_collision_with_level returned.
AfterRotationCheck(rotated, level, c) ==
    IF c.raised # "none" THEN [raised |-> c.raised, ship |-> rotated]
    ELSE IF c.value THEN Repositioned(rotated, find_collision_free_position(rotated, level))
    ELSE [raised |-> "none", ship |-> rotated]

CheckRotated(rotated, level) ==
    AfterRotationCheck(rotated, level, check_collision_with_level(rotated, level))

\* Spaceship.apply_rotation: [raised, ship].
apply_rotation(s, rotate_left, rotate_right, level) ==
    IF rotate_left /\ level # None THEN CheckRotated(rotate(s, -ROTATION_SPEED), level)
    ELSE IF rotate_left THEN [raised |-> "none", ship |-> rotate(s, -ROTATION_SPEED)]
    ELSE IF rotate_right /\ level # None THEN CheckRotated(rotate(s, ROTATION_SPEED), level)
    ELSE IF rotate_right THEN [raised |-> "none", ship |-> rotate(s, ROTATION_SPEED)]
    ELSE [raised |-> "none", ship |-> s]

(***************************************************************************)
(* ghost_system.py                                                         *)
(***************************************************************************)
\* GhostRecorder.__init__
NewGhostRecorder == [frames |-> << >>, recording |-> FALSE, start_time |-> 0]

\* Mutant of start_recording: the frames of the last attempt are kept.
ResumeRecording(rec, t) == [rec EXCEPT !.recording = TRUE, !.start_time = t]

\* GhostRecorder.start_recording
start_recording(rec, t) == [frames |-> << >>, recording |-> TRUE, start_time |-> t]

\* GhostRecorder.stop_recording
stop_recording(rec) == [rec EXCEPT !.recording = FALSE]

\* Mutant of record_frame: the frame is appended twice.
RecordTwice(rec, s, t) ==
    IF ~rec.recording \/ s = None THEN rec
    ELSE [rec EXCEPT !.frames =
            Append(Append(@, [timestamp |-> t - rec.start_time,
                              x |-> s.x, y |-> s.y, rotation |-> s.rotation]),
                   [timestamp |-> t - rec.start_time,
                    x |-> s.x, y |-> s.y, rotation |-> s.rotation])]

\* GhostRecorder.record_frame
record_frame(rec, s, t) ==
    IF ~rec.recording \/ s = None THEN rec
    ELSE [rec EXCEPT !.frames =
            Append(@, [timestamp |-> t - rec.start_time,
                       x |-> s.x, y |-> s.y, rotation |-> s.rotation])]

\* GhostRecorder.export_playback_data: x and y through int(), rotation as is.
export_playback_data(rec) ==
    [i \in 1..Len(rec.frames) |->
        [timestamp |-> rec.frames[i].timestamp,
         x |-> Px(ToInt(rec.frames[i].x)),
         y |-> Px(ToInt(rec.frames[i].y)),
         rotation |-> rec.frames[i].rotation]]

\* GhostPlayback.__init__
NewGhostPlayback ==
    [frames |-> << >>, playing |-> FALSE, start_time |-> 0, current_frame_index |-> 0]

\* A list: its indices are 1..n.  The keys of a dict are strings, which are
\* not comparable with numbers, so the two index sets are compared as text.
IsList(v) ==
    ToString({k : k \in DOMAIN v}) = ToString({k : k \in 1..Cardinality(DOMAIN v)})

\* What load_playback_data can load: a list of frames that have the four
\* keys it reads.  On anything else it raises after emptying self.frames.
Loadable(v) ==
    /\ IsList(v)
    /\ \A i \in DOMAIN v : DOMAIN v[i] = {"timestamp", "x", "y", "rotation"}

\* GhostPlayback.load_playback_data
load_playback_data(pb, recording_data) == [pb EXCEPT !.frames = recording_data]

\* GhostPlayback.start_playback
start_playback(pb, t) ==
    [pb EXCEPT !.playing = TRUE, !.start_time = t, !.current_frame_index = 0]

\* GhostPlayback.stop_playback
stop_playback(pb) == [pb EXCEPT !.playing = FALSE, !.current_frame_index = 0]

\* Mutant of get_current_ghost_state: the cursor is left one past the
\* frame returned.
CursorPastFrame(pb, t) ==
    IF ~pb.playing \/ Len(pb.frames) = 0 THEN [playback |-> pb, frame |-> None]
    ELSE
      LET playback_time == t - pb.start_time
          RECURSIVE Walk(_, _, _)
          Walk(i, idx, target) ==
            IF i >= Len(pb.frames) THEN <<idx, target>>
            ELSE IF pb.frames[i + 1].timestamp <= playback_time
            THEN Walk(i + 1, i + 1, pb.frames[i + 1])
            ELSE <<idx, target>>
          r == Walk(pb.current_frame_index, pb.current_frame_index, None)
      IN [playback |-> [pb EXCEPT !.current_frame_index = r[1]], frame |-> r[2]]

\* Mutant of get_current_ghost_state: the first frame that is due is
\* returned, not the last.
FirstDueFrame(pb, t) ==
    IF ~pb.playing \/ Len(pb.frames) = 0 THEN [playback |-> pb, frame |-> None]
    ELSE IF pb.frames[pb.current_frame_index + 1].timestamp <= t - pb.start_time
    THEN [playback |-> pb, frame |-> pb.frames[pb.current_frame_index + 1]]
    ELSE [playback |-> pb, frame |-> None]

\* GhostPlayback.get_current_ghost_state: [playback, frame].  The loop
\* walks frames[current_frame_index:] (0-based) and stops at the first
\* frame that lies in the future.
get_current_ghost_state(pb, t) ==
    IF ~pb.playing \/ Len(pb.frames) = 0 THEN [playback |-> pb, frame |-> None]
    ELSE
      LET playback_time == t - pb.start_time
          RECURSIVE Walk(_, _, _)
          Walk(i, idx, target) ==
            IF i >= Len(pb.frames) THEN <<idx, target>>
            ELSE IF pb.frames[i + 1].timestamp <= playback_time
            THEN Walk(i + 1, i, pb.frames[i + 1])
            ELSE <<idx, target>>
          r == Walk(pb.current_frame_index, pb.current_frame_index, None)
      IN [playback |-> [pb EXCEPT !.current_frame_index = r[1]], frame |-> r[2]]

\* Ghost.__init__ with Ghost._create_transparent_image
NewGhost(image) ==
    LET faded == MkSurface(image.w, image.h,
                           [p \in Cells(image.w, image.h) |->
                              IF image.alpha[p] > 0 THEN 128 ELSE image.alpha[p]])
    IN [MkEntity(0, 0, 0, faded) EXCEPT !.current_image = faded]
         @@ [visible |-> FALSE]

\* Mutant of update_from_ghost_frame: the ghost takes the frame's position
\* but not its rotation.
SnapsPositionOnly(g, ghost_frame) ==
    IF ghost_frame # None
    THEN [set_position(g, ghost_frame.x, ghost_frame.y) EXCEPT !.visible = TRUE]
    ELSE [g EXCEPT !.visible = FALSE]

\* Ghost.update_from_ghost_frame
update_from_ghost_frame(g, ghost_frame) ==
    IF ghost_frame # None
    THEN [set_rotation(set_position(g, ghost_frame.x, ghost_frame.y), ghost_frame.rotation)
            EXCEPT !.visible = TRUE]
    ELSE [g EXCEPT !.visible = FALSE]

(***************************************************************************)
(* timer.py                                                                *)
(***************************************************************************)
\* GameTimer.__init__
NewGameTimer == [start_time |-> 0, current_time |-> 0, is_running |-> FALSE]

\* GameTimer.start
timer_start(tm, t) == [start_time |-> t, current_time |-> 0, is_running |-> TRUE]

\* Mutant of timer_update: a stopped timer is updated too.
UpdateAlways(tm, t) == [tm EXCEPT !.current_time = t - tm.start_time]

\* GameTimer.update
timer_update(tm, t) ==
    IF tm.is_running THEN [tm EXCEPT !.current_time = t - tm.start_time] ELSE tm

\* GameTimer.stop
timer_stop(tm) == [tm EXCEPT !.is_running = FALSE]

\* Strings are sequences of character codes, so that "<" on strings can be
\* computed.
\* ord(c) for the characters of a formatted time.
Ord(c) == CASE c = "." -> 46 [] c = "0" -> 48 [] c = ":" -> 58

\* str(n) for n >= 0
RECURSIVE Decimal(_)
Decimal(n) == IF n < 10 THEN <<Ord("0") + n>> ELSE Decimal(n \div 10) \o <<Ord("0") + (n % 10)>>

Zeros(k) == [i \in 1..k |-> Ord("0")]

\* Mutant of Pad: no padding.
NoPadding(n, width) == Decimal(n)

\* f"{n:0<width>d}": zero-padded to at least width characters.
Pad(n, width) ==
    IF Len(Decimal(n)) >= width THEN Decimal(n)
    ELSE Zeros(width - Len(Decimal(n))) \o Decimal(n)

\* Mutant of format_timer: the seconds come first.
FormatSecondsFirst(milliseconds) ==
    Pad((milliseconds \div 1000) % 60, 2) \o <<Ord(":")>>
      \o Pad((milliseconds \div 1000) \div 60, 2) \o <<Ord(".")>> \o Pad(milliseconds % 1000, 3)

\* GameTimer.format_timer
format_timer(milliseconds) ==
    Pad((milliseconds \div 1000) \div 60, 2) \o <<Ord(":")>>
      \o Pad((milliseconds \div 1000) % 60, 2) \o <<Ord(".")>> \o Pad(milliseconds % 1000, 3)

\* Python's "<" on strings: the first differing character decides, a proper
\* prefix is smaller.
RECURSIVE StrLessFrom(_, _, _)
StrLessFrom(a, b, k) ==
    IF k > Len(b) THEN FALSE
    ELSE IF k > Len(a) THEN TRUE
    ELSE IF a[k] # b[k] THEN a[k] < b[k]
    ELSE StrLessFrom(a, b, k + 1)

StrLess(a, b) == StrLessFrom(a, b, 1)

(***************************************************************************)
(* input_manager.py: the debounce clocks                                   *)
(***************************************************************************)
NAVIGATE_DELAY == 200
SELECT_DELAY == 300
RESET_DELAY == 500

\* InputManager.__init__
NewInputManager ==
    [last_navigate_time |-> 0, last_select_time |-> 0, last_reset_time |-> 0]

\* InputManager.check_debounced_navigate: [input_manager, accepted].
check_debounced_navigate(im, navigate_input, current_time) ==
    IF navigate_input /\ current_time - im.last_navigate_time > NAVIGATE_DELAY
    THEN [input_manager |-> [im EXCEPT !.last_navigate_time = current_time],
          accepted |-> TRUE]
    ELSE [input_manager |-> im, accepted |-> FALSE]

\* Mutant of check_debounced_select: an activation exactly one delay after
\* the last accepted one is accepted.
SelectAtTheDelay(im, select_input, current_time) ==
    IF select_input /\ current_time - im.last_select_time >= SELECT_DELAY
    THEN [input_manager |-> [im EXCEPT !.last_select_time = current_time],
          accepted |-> TRUE]
    ELSE [input_manager |-> im, accepted |-> FALSE]

\* InputManager.check_debounced_select: [input_manager, accepted].
check_debounced_select(im, select_input, current_time) ==
    IF select_input /\ current_time - im.last_select_time > SELECT_DELAY
    THEN [input_manager |-> [im EXCEPT !.last_select_time = current_time],
          accepted |-> TRUE]
    ELSE [input_manager |-> im, accepted |-> FALSE]

\* InputManager.check_debounced_reset: [input_manager, accepted].
check_debounced_reset(im, reset_input, current_time) ==
    IF reset_input /\ current_time - im.last_reset_time > RESET_DELAY
    THEN [input_manager |-> [im EXCEPT !.last_reset_time = current_time],
          accepted |-> TRUE]
    ELSE [input_manager |-> im, accepted |-> FALSE]

(***************************************************************************)
(* game_state_manager.py                                                   *)
(***************************************************************************)
\* The manager's fields as one record, so that its methods compose.
Self ==
    [screen |-> screen, current_state |-> current_state,
     current_level |-> current_level, spaceship |-> spaceship,
     selected_level |-> selected_level, level_completed |-> level_completed,
     ghost_recorder |-> ghost_recorder, ghost_playback |-> ghost_playback,
     ghost |-> ghost, timer |-> timer, input_manager |-> input_manager,
     best_ghosts |-> best_ghosts, scoreboard |-> scoreboard, username |-> username,
     menu_state |-> menu_state]

Becomes(m) ==
    /\ screen' = m.screen
    /\ current_state' = m.current_state
    /\ current_level' = m.current_level
    /\ spaceship' = m.spaceship
    /\ selected_level' = m.selected_level
    /\ level_completed' = m.level_completed
    /\ ghost_recorder' = m.ghost_recorder
    /\ ghost_playback' = m.ghost_playback
    /\ ghost' = m.ghost
    /\ timer' = m.timer
    /\ input_manager' = m.input_manager
    /\ best_ghosts' = m.best_ghosts
    /\ scoreboard' = m.scoreboard
    /\ username' = m.username
    /\ menu_state' = m.menu_state

\* A call that returned res = [self, raised]: the manager is as the call
\* left it, whether it returned or raised.
Returns(res) == Becomes(res.self) /\ raised' = res.raised

\* self.best_ghosts.get(name, [])
BestGhostOf(m, name) ==
    IF name \in DOMAIN m.best_ghosts THEN m.best_ghosts[name] ELSE << >>

\* "if self.best_ghosts.get(name, []): load_playback_data(...)" raises: the
\* entry is not empty and is not a list of frames.
GhostRaises(m, name) ==
    /\ Cardinality(DOMAIN BestGhostOf(m, name)) > 0
    /\ ~Loadable(BestGhostOf(m, name))

\* dict.get(key, default)
DictGet(dict, key, default) == IF key \in DOMAIN dict THEN dict[key] ELSE default

\* {**a, **b}: the entries of b, and those of a under the other keys.
DictMerge(a, b) == b @@ a

\* The bin that holds the leaderboard, and best_ghost_urls in dict order.
ScoreboardUrl == "68c0361ed0ea881f40776fe7"

best_ghost_urls ==
    << [name |-> "Ryan Level", url |-> "68c43384d0ea881f407ba93b"],
       [name |-> "John Level", url |-> "68ca94be43b1c97be945f7db"],
       [name |-> "Martin Level", url |-> "68ca94d343b1c97be945f7f6"] >>

\* The bin of one level's best ghost, or None for a level without one.
GhostUrlOf(level_name) ==
    IF \E i \in DOMAIN best_ghost_urls : best_ghost_urls[i].name = level_name
    THEN (CHOOSE e \in {best_ghost_urls[i] : i \in DOMAIN best_ghost_urls} :
              e.name = level_name).url
    ELSE NoName

\* json.loads(await self.session.get(url))["record"] raises: the i-th
\* request of the call is one of those that fail, or the bin holds no record.
GetRaises(sess, url, i, fails) == i \in fails \/ url \notin DOMAIN sess.store

\* await self.session.put(url, data): the bin holds data afterwards.
session_put(sess, url, data) ==
    [store |-> (url :> data) @@ sess.store, puts |-> sess.puts + 1]

\* The loop of initialize_scoreboard after k downloads that succeeded.
RECURSIVE DownloadedGhosts(_, _)
DownloadedGhosts(sess, k) ==
    IF k = 0 THEN << >>
    ELSE DictMerge(DownloadedGhosts(sess, k - 1), sess.store[best_ghost_urls[k].url])

\* The downloads that succeed before the first one that raises.
RECURSIVE GhostsBeforeFailure(_, _, _)
GhostsBeforeFailure(sess, fails, k) ==
    IF k = Len(best_ghost_urls) \/ GetRaises(sess, best_ghost_urls[k + 1].url, k + 2, fails)
    THEN k
    ELSE GhostsBeforeFailure(sess, fails, k + 1)

\* MenuState(screen_width, screen_height, scoreboard): the first level is
\* selected.
NewMenuState(board) == [selected_level_index |-> 0, scoreboard |-> board]

\* GameStateManager.initialize_scoreboard: [self, returned].  The requests
\* are the leaderboard get (1) and one get per ghost bin (2, 3, 4); fails
\* holds those that raise.
initialize_scoreboard(m, sess, fails) ==
    IF GetRaises(sess, ScoreboardUrl, 1, fails)
    THEN [self |-> [m EXCEPT !.scoreboard = << >>,
                             !.menu_state = NewMenuState(<< >>)],
          returned |-> FALSE]
    ELSE IF GhostsBeforeFailure(sess, fails, 0) < Len(best_ghost_urls)
    THEN [self |-> [m EXCEPT !.scoreboard = << >>,
                             !.menu_state = NewMenuState(<< >>),
                             !.best_ghosts =
                                 DownloadedGhosts(sess, GhostsBeforeFailure(sess, fails, 0))],
          returned |-> FALSE]
    ELSE [self |-> [m EXCEPT !.scoreboard = sess.store[ScoreboardUrl],
                             !.menu_state = NewMenuState(sess.store[ScoreboardUrl]),
                             !.best_ghosts = DownloadedGhosts(sess, Len(best_ghost_urls))],
          returned |-> TRUE]

\* GameStateManager.set_username
set_username(m, name) == [m EXCEPT !.username = name]

\* Mutant of WithScore: the fetched leaderboard is dropped, only the new
\* entry is kept.
WithScoreAlone(board, level_name, user, time) == (level_name :> (user :> time))

\* fresh_scoreboard[level_name][user] = time
WithScore(board, level_name, user, time) ==
    (level_name :> ((user :> time) @@ DictGet(board, level_name, << >>))) @@ board

\* GameStateManager.update_scoreboard_api: [session, returned].  Request 1
\* is the get, request 2 the put.
update_scoreboard_api(m, sess, level_name, user, time, fails) ==
    IF GetRaises(sess, ScoreboardUrl, 1, fails) \/ 2 \in fails
    THEN [session |-> sess, returned |-> m.scoreboard]
    ELSE [session |-> session_put(sess, ScoreboardUrl,
                                  WithScore(sess.store[ScoreboardUrl], level_name, user, time)),
          returned |-> WithScore(sess.store[ScoreboardUrl], level_name, user, time)]

\* GameStateManager.update_ghost_api: [self, session, returned].  Request 3
\* is the put.
update_ghost_api(m, sess, level_name, ghost_recording, fails) ==
    IF 3 \in fails \/ GhostUrlOf(level_name) = NoName
    THEN [self |-> [m EXCEPT !.best_ghosts = (level_name :> ghost_recording) @@ @],
          session |-> sess,
          returned |-> m.scoreboard]
    ELSE [self |-> [m EXCEPT !.best_ghosts = (level_name :> ghost_recording) @@ @],
          session |-> session_put(sess, GhostUrlOf(level_name),
                                  (level_name :> ghost_recording)),
          returned |-> (level_name :> ghost_recording)]

\* min() of a set of strings.
MinText(texts) == CHOOSE t \in texts : \A u \in texts : ~StrLess(u, t)

\* The values of scoreboard.get(level_name, {}).
TimesOf(board, level_name) ==
    { DictGet(board, level_name, << >>)[u] : u \in DOMAIN DictGet(board, level_name, << >>) }

\* Mutant of ExportIfGlobalBest: the leaderboard that update_scoreboard_api
\* returned is not kept.
ExportWithoutKeeping(m, sb, timer_text, fails) ==
    [self |-> m, session |-> sb.session, returned |-> TRUE, raised |-> "none"]

\* Lines 120-135 of handle_level_completion, sb being what
\* update_scoreboard_api answered: [session, returned].
ExportIfGlobalBest(m, sb, timer_text, fails) ==
    IF TimesOf(sb.returned, m.selected_level) = {}
    THEN [self |-> [m EXCEPT !.scoreboard = sb.returned,
                             !.menu_state = NewMenuState(sb.returned)],
          session |-> sb.session, returned |-> FALSE, raised |-> "ValueError"]
    ELSE IF timer_text # MinText(TimesOf(sb.returned, m.selected_level))
    THEN [self |-> [m EXCEPT !.scoreboard = sb.returned,
                             !.menu_state = NewMenuState(sb.returned)],
          session |-> sb.session, returned |-> TRUE, raised |-> "none"]
    ELSE LET g == update_ghost_api([m EXCEPT !.scoreboard = sb.returned,
                                             !.menu_state = NewMenuState(sb.returned)],
                                   sb.session, m.selected_level,
                                   export_playback_data(m.ghost_recorder), fails)
         IN [self |-> [g.self EXCEPT !.best_ghosts = DictMerge(@, g.returned)],
             session |-> g.session, returned |-> TRUE, raised |-> "none"]

\* Mutant of handle_level_completion: the level-completed flag is not
\* looked at.
CompletionUnguarded(m, sess, fails) ==
    IF m.selected_level = NoName
    THEN [self |-> m, session |-> sess, returned |-> FALSE, raised |-> "none"]
    ELSE IF m.username = NoName
    THEN [self |-> m, session |-> sess, returned |-> TRUE, raised |-> "none"]
    ELSE IF ~StrLess(format_timer(m.timer.current_time),
                     DictGet(DictGet(m.scoreboard, m.selected_level, << >>),
                             m.username, format_timer(3599000)))
    THEN [self |-> m, session |-> sess, returned |-> TRUE, raised |-> "none"]
    ELSE ExportIfGlobalBest(
             m,
             update_scoreboard_api(m, sess, m.selected_level, m.username,
                                   format_timer(m.timer.current_time), fails),
             format_timer(m.timer.current_time), fails)

\* GameStateManager.handle_level_completion: [self, session, returned,
\* raised].  '59:59.000' is format_timer(3599000).
handle_level_completion(m, sess, fails) ==
    IF ~m.level_completed \/ m.selected_level = NoName
    THEN [self |-> m, session |-> sess, returned |-> FALSE, raised |-> "none"]
    ELSE IF m.username = NoName
    THEN [self |-> m, session |-> sess, returned |-> TRUE, raised |-> "none"]
    ELSE IF ~StrLess(format_timer(m.timer.current_time),
                     DictGet(DictGet(m.scoreboard, m.selected_level, << >>),
                             m.username, format_timer(3599000)))
    THEN [self |-> m, session |-> sess, returned |-> TRUE, raised |-> "none"]
    ELSE ExportIfGlobalBest(
             m,
             update_scoreboard_api(m, sess, m.selected_level, m.username,
                                   format_timer(m.timer.current_time), fails),
             format_timer(m.timer.current_time), fails)

\* GameStateManager.switch_to_menu
switch_to_menu(m) ==
    [m EXCEPT !.current_state = "menu",
              !.level_completed = FALSE,
              !.current_level = None,
              !.spaceship = None,
              !.ghost_recorder = IF @.recording THEN stop_recording(@) ELSE @,
              !.ghost_playback = IF @.playing THEN stop_playback(@) ELSE @,
              !.ghost = None]

\* Mutant of switch_to_playing: the timer is started before the ship asset
\* is loaded.
TimerStartedFirst(m, level_info, ship_image, t) ==
    IF level_info.file = None THEN m
    ELSE IF ship_image = None
    THEN [m EXCEPT !.current_level = level_info.file, !.timer = timer_start(@, t)]
    ELSE [m EXCEPT
               !.current_level = level_info.file,
               !.spaceship = NewSpaceship(ship_image),
               !.ghost = NewGhost(ship_image),
               !.ghost_playback =
                   IF Len(BestGhostOf(m, level_info.name)) > 0
                   THEN start_playback(
                          load_playback_data(@, BestGhostOf(m, level_info.name)), t)
                   ELSE @,
               !.ghost_recorder = start_recording(@, t),
               !.level_completed = FALSE,
               !.selected_level = level_info.name,
               !.timer = timer_start(@, t),
               !.current_state = "playing"]

\* GameStateManager.switch_to_playing.  A missing level file makes Level()
\* raise with nothing changed yet; a missing spaceship.png (ship_image is
\* None) makes Spaceship() raise with the level already assigned; a best
\* ghost that cannot be loaded makes load_playback_data raise with level,
\* ship and ghost assigned and the frames emptied.  The except clause turns
\* each into "return False".
switch_to_playing(m, level_info, ship_image, t) ==
    IF level_info.file = None THEN m
    ELSE IF ship_image = None THEN [m EXCEPT !.current_level = level_info.file]
    ELSE IF GhostRaises(m, level_info.name)
    THEN [m EXCEPT !.current_level = level_info.file,
                   !.spaceship = NewSpaceship(ship_image),
                   !.ghost = NewGhost(ship_image),
                   !.ghost_playback.frames = << >>]
    ELSE LET has_ghost == Cardinality(DOMAIN BestGhostOf(m, level_info.name)) > 0
         IN [m EXCEPT
               !.current_level = level_info.file,
               !.spaceship = NewSpaceship(ship_image),
               !.ghost = NewGhost(ship_image),
               !.ghost_playback =
                   IF has_ghost
                   THEN start_playback(
                          load_playback_data(@, BestGhostOf(m, level_info.name)), t)
                   ELSE @,
               !.ghost_recorder = start_recording(@, t),
               !.level_completed = FALSE,
               !.selected_level = level_info.name,
               !.timer = timer_start(@, t),
               !.current_state = "playing"]

\* What switch_to_playing returns when the level's best ghost, if any, loads.
switch_to_playing_returns(level_info, ship_image) ==
    level_info.file # None /\ ship_image # None

\* MenuState.levels: the names initialize_levels gives the three levels.
MenuLevelNames == <<"Ryan Level", "John Level", "Martin Level">>

\* MenuState.navigate_up
navigate_up(menu) ==
    IF menu.selected_level_index > 0
    THEN [menu EXCEPT !.selected_level_index = @ - 1]
    ELSE menu

\* MenuState.navigate_down
navigate_down(menu) ==
    IF menu.selected_level_index < Len(MenuLevelNames) - 1
    THEN [menu EXCEPT !.selected_level_index = @ + 1]
    ELSE menu

\* MenuState.get_selected_level: the LevelInfo under the cursor, files being
\* what the three level files hold.
get_selected_level(menu, files) ==
    [name |-> MenuLevelNames[menu.selected_level_index + 1],
     file |-> files[menu.selected_level_index + 1]]

\* The navigation half of handle_menu_input: up is tried first, down only
\* if up was not accepted.  [self, moved].
Navigated(m, t, up, down) ==
    IF check_debounced_navigate(m.input_manager, up, t).accepted
    THEN [self |-> [m EXCEPT !.input_manager.last_navigate_time = t,
                             !.menu_state = navigate_up(@)],
          moved |-> "up"]
    ELSE IF check_debounced_navigate(m.input_manager, down, t).accepted
    THEN [self |-> [m EXCEPT !.input_manager.last_navigate_time = t,
                             !.menu_state = navigate_down(@)],
          moved |-> "down"]
    ELSE [self |-> m, moved |-> "none"]

\* The selection half of handle_menu_input, d being what
\* check_debounced_select returned.  [self, moved, selected].
Selected(n, t, d, files, ship_image) ==
    IF d.accepted
    THEN [self |-> switch_to_playing([n.self EXCEPT !.input_manager = d.input_manager],
                                     get_selected_level(n.self.menu_state, files),
                                     ship_image, t),
          moved |-> n.moved, selected |-> TRUE]
    ELSE [self |-> n.self, moved |-> n.moved, selected |-> FALSE]

\* GameStateManager.handle_menu_input: [self, moved, selected], moved and
\* selected telling which menu calls the handler made.
handle_menu_input(m, t, up, down, select, files, ship_image) ==
    Selected(Navigated(m, t, up, down), t,
             check_debounced_select(Navigated(m, t, up, down).self.input_manager,
                                    select, t),
             files, ship_image)

\* reset_current_level raises TypeError: the level's entry of best_ghosts
\* cannot be loaded.  Nothing catches it.
ResetRaises(m) ==
    /\ m.current_level # None
    /\ m.spaceship # None
    /\ m.selected_level # NoName
    /\ GhostRaises(m, m.selected_level)

\* GameStateManager.reset_current_level.  When the load raises, the new
\* recording has been started and the frames emptied.
reset_current_level(m, t) ==
    IF ResetRaises(m)
    THEN [m EXCEPT !.ghost_recorder = start_recording(@, t),
                   !.ghost_playback.frames = << >>]
    ELSE IF m.current_level # None /\ m.spaceship # None
    THEN LET has_ghost == m.selected_level # NoName
                           /\ Cardinality(DOMAIN BestGhostOf(m, m.selected_level)) > 0
         IN [m EXCEPT
               !.ghost_recorder = start_recording(@, t),
               !.ghost_playback =
                   IF has_ghost
                   THEN start_playback(
                          load_playback_data(@, BestGhostOf(m, m.selected_level)), t)
                   ELSE stop_playback(@),
               !.spaceship = reset_to_start(@),
               !.level_completed = FALSE,
               !.timer = timer_start(@, t)]
    ELSE m

\* "self.spaceship.apply_thrust(thrust); self.spaceship.apply_rotation(...)"
\* has run and returned r = [raised, ship].
Steered(m, r) == [self |-> [m EXCEPT !.spaceship = r.ship], raised |-> r.raised]

\* Mutant of AfterReset: the controls are applied although the level is
\* completed.
SteerAlthoughCompleted(m, thrust, rotate_left, rotate_right, back_to_menu) ==
    IF back_to_menu THEN [self |-> switch_to_menu(m), raised |-> "none"]
    ELSE IF m.spaceship # None
    THEN Steered(m, apply_rotation(apply_thrust(m.spaceship, thrust),
                                   rotate_left, rotate_right, m.current_level))
    ELSE [self |-> m, raised |-> "none"]

\* GameStateManager.handle_game_input after the debounced reset.
AfterReset(m, thrust, rotate_left, rotate_right, back_to_menu) ==
    IF back_to_menu THEN [self |-> switch_to_menu(m), raised |-> "none"]
    ELSE IF ~m.level_completed /\ m.spaceship # None
    THEN Steered(m, apply_rotation(apply_thrust(m.spaceship, thrust),
                                   rotate_left, rotate_right, m.current_level))
    ELSE [self |-> m, raised |-> "none"]

\* "if self.input_manager.check_debounced_reset(...): self.reset_current_level()",
\* d being what check_debounced_reset returned.
Debounced(m, t, d) ==
    IF d.accepted
    THEN reset_current_level([m EXCEPT !.input_manager = d.input_manager], t)
    ELSE [m EXCEPT !.input_manager = d.input_manager]

\* GameStateManager.handle_game_input: [self, raised].
handle_game_input(m, t, thrust, rotate_left, rotate_right, back_to_menu, reset_level) ==
    IF check_debounced_reset(m.input_manager, reset_level, t).accepted /\ ResetRaises(m)
    THEN [self |-> Debounced(m, t, check_debounced_reset(m.input_manager, reset_level, t)),
          raised |-> "TypeError"]
    ELSE
    AfterReset(Debounced(m, t, check_debounced_reset(m.input_manager, reset_level, t)),
               thrust, rotate_left, rotate_right, back_to_menu)

\* "if not self.level_completed: self.timer.update()"
UpdateTimer(m, t) ==
    [m EXCEPT !.timer = IF m.level_completed THEN @ ELSE timer_update(@, t)]

\* "self.spaceship.handle_collision(bounce_x, bounce_y)" and the timer.
Bounced(m, t, bounce_x, bounce_y) ==
    [self |-> UpdateTimer([m EXCEPT !.spaceship = handle_collision(@, bounce_x, bounce_y)], t),
     raised |-> "none"]

\* The geometry branch of update_gameplay: x_back and y_back are what the
\* two checks at the previous x and the previous y returned, each unpacked
\* into two names.
BounceOffGeometry(m, t, x_back, y_back) ==
    IF UnpackTwo(x_back) # "none" THEN [self |-> m, raised |-> UnpackTwo(x_back)]
    ELSE IF UnpackTwo(y_back) # "none" THEN [self |-> m, raised |-> UnpackTwo(y_back)]
    ELSE Bounced(m, t, ~x_back[1], ~y_back[1])

\* The boundary branch: b is what get_boundary_collision_type returned.
BounceOffBoundary(m, t, b) == Bounced(m, t, b[1], b[2])

\* The part of GameStateManager.update_gameplay that follows the first
\* footprint check: goal test, collision test, bounce axes and
\* handle_collision, then the timer.  m holds the state after the physics
\* step, the recording and the ghost update; solid_collision and
\* special_collision are the two unpacked flags.
resolve_collision(m, t, solid_collision, special_collision) ==
    IF special_collision
    THEN [self |-> [m EXCEPT !.level_completed = TRUE,
                             !.ghost_recorder =
                                 IF @.recording THEN stop_recording(@) ELSE @],
          raised |-> "none"]
    ELSE IF ~is_within_screen_bounds(m.spaceship, m.screen[1], m.screen[2])
    THEN BounceOffBoundary(m, t, get_boundary_collision_type(
                                   m.spaceship, m.screen[1], m.screen[2]))
    ELSE IF solid_collision
    THEN BounceOffGeometry(
           m, t,
           check_spaceship_collisions(
             m.current_level, m.spaceship.current_image,
             collision_origin(m.spaceship, m.spaceship.prev_x, m.spaceship.prev_y)[1],
             get_collision_rect_info(m.spaceship)[2]),
           check_spaceship_collisions(
             m.current_level, m.spaceship.current_image,
             get_collision_rect_info(m.spaceship)[1],
             collision_origin(m.spaceship, m.spaceship.prev_x, m.spaceship.prev_y)[2]))
    ELSE [self |-> UpdateTimer(m, t), raised |-> "none"]

\* "solid_collision, special_collision = <r>" in update_gameplay, and what
\* follows it.
Unpacked(m, t, r) ==
    IF UnpackTwo(r) # "none" THEN [self |-> m, raised |-> UnpackTwo(r)]
    ELSE resolve_collision(m, t, r[1], r[2])

\* update_gameplay from the first footprint check on.
CheckFootprint(m, t) ==
    Unpacked(m, t, check_spaceship_collisions(
                     m.current_level, m.spaceship.current_image,
                     get_collision_rect_info(m.spaceship)[1],
                     get_collision_rect_info(m.spaceship)[2]))

\* "current_ghost_frame = ...; self.ghost.update_from_ghost_frame(...)"
FollowGhost(m, g) ==
    [m EXCEPT !.ghost_playback = g.playback,
              !.ghost = update_from_ghost_frame(@, g.frame)]

\* update_gameplay once the ship has moved: the recording and the ghost.
RecordAndFollow(m, t) ==
    IF m.ghost_playback.playing /\ m.ghost # None
    THEN FollowGhost([m EXCEPT !.ghost_recorder =
                        IF @.recording THEN record_frame(@, m.spaceship, t) ELSE @],
                     get_current_ghost_state(m.ghost_playback, t))
    ELSE [m EXCEPT !.ghost_recorder =
            IF @.recording THEN record_frame(@, m.spaceship, t) ELSE @]

\* GameStateManager.update_gameplay: [self, raised].
update_gameplay(m, t, delta_time) ==
    IF ~m.level_completed /\ m.spaceship # None /\ m.current_level # None
    THEN CheckFootprint(
           RecordAndFollow([m EXCEPT !.spaceship = update(@, delta_time)], t), t)
    ELSE [self |-> UpdateTimer(m, t), raised |-> "none"]

(***************************************************************************)
(* The game as its host loop drives it                                     *)
(***************************************************************************)
\* Ticks, input steps and level entries in one run.
MaxCalls == 3

\* The clock stops advancing here (ms).
MaxNow == 600

\* Milliseconds the clock advances at a time.
ClockStep == 600

\* The normalized delta-time factors of a tick: the 60 Hz baseline and a
\* frame nine times as long.
DeltaTimes == {1, 9}

\* The spaceship.png asset: 2 by 3 pixels, the top-left one transparent.
ShipImage ==
    MkSurface(2, 3, [p \in Cells(2, 3) |-> IF p = <<0, 0>> THEN 0 ELSE 255])

\* spaceship.png as pygame.image.load finds it: the image, or no file.
ShipImages == {ShipImage, None}

\* The window sizes the manager is constructed with: the game's own, and
\* one whose bottom edge touches the ship at its start position and whose
\* right edge cuts through it.
Screens == {<<1440, 2560>>, <<1300, 2453>>}

LEVEL_WIDTH == 1440
LEVEL_HEIGHT == 2560

\* Level images: white, with a few pixels painted just under the start
\* position (the ship starts over columns 1299..1300, rows 2450..2452).
FloorLevel ==
    MkLevel(LEVEL_WIDTH, LEVEL_HEIGHT, White,
            (<<1299, 2453>> :> Black) @@ (<<1300, 2453>> :> Black))

GoalLevel ==
    MkLevel(LEVEL_WIDTH, LEVEL_HEIGHT, White,
            (<<1299, 2453>> :> Blue) @@ (<<1300, 2453>> :> Blue))

GoalBesideWallLevel ==
    MkLevel(LEVEL_WIDTH, LEVEL_HEIGHT, White,
            (<<1299, 2453>> :> Black) @@ (<<1300, 2453>> :> Blue))

\* A wall just above the start position.
CeilingLevel ==
    MkLevel(LEVEL_WIDTH, LEVEL_HEIGHT, White,
            (<<1299, 2449>> :> Black) @@ (<<1300, 2449>> :> Black))

\* MenuState.levels with the image each file holds (None: no such file).
LevelInfos ==
    { [name |-> "Ryan Level", file |-> FloorLevel],
      [name |-> "Ryan Level", file |-> CeilingLevel],
      [name |-> "John Level", file |-> GoalLevel],
      [name |-> "Martin Level", file |-> GoalBesideWallLevel],
      [name |-> "Martin Level", file |-> None] }

\* clock.tick(60): the length of a frame (ms).
FPS == 60
FrameMs == 1000 \div FPS

\* What initialize_scoreboard leaves in best_ghosts: nothing (the load
\* failed or was not made), or the exported frames of a best run of one
\* level, as export_playback_data writes them.
DownloadedGhost ==
    << [timestamp |-> FrameMs, x |-> Px(1299), y |-> Px(2450), rotation |-> 0],
       [timestamp |-> 300, x |-> Px(1299), y |-> Px(2449), rotation |-> 354] >>

BestGhostStores == { << >>, [n \in {"Ryan Level"} |-> DownloadedGhost] }

NoCall == [op |-> "none"]

\* RequestHandler(): the remote key-value store it reaches (key -> record)
\* and the number of puts made through it.  Here the store is empty.
NewRequestHandler == [store |-> << >>, puts |-> 0]

\* GameStateManager.__init__
GameInit ==
    /\ screen \in Screens
    /\ current_state = "menu"
    /\ current_level = None
    /\ spaceship = None
    /\ selected_level = NoName
    /\ level_completed = FALSE
    /\ ghost_recorder = NewGhostRecorder
    /\ ghost_playback = NewGhostPlayback
    /\ ghost = None
    /\ timer = NewGameTimer
    /\ input_manager = NewInputManager
    /\ best_ghosts \in BestGhostStores
    /\ scoreboard = << >>
    /\ username = NoName
    /\ menu_state = None
    /\ session = NewRequestHandler
    /\ now = 0
    /\ call = NoCall
    /\ raised = "none"
    /\ calls = 0

\* pygame.time.get_ticks() moves on between two calls.
ClockAdvance ==
    /\ now + ClockStep <= MaxNow
    /\ now' = now + ClockStep
    /\ UNCHANGED <<probe, screen, current_state, current_level, spaceship,
                   selected_level, level_completed, ghost_recorder, ghost_playback,
                   ghost, timer, input_manager, best_ghosts, scoreboard, username, menu_state,
                   session, call, raised, calls>>

\* The menu selects a level.
SwitchToPlaying ==
    /\ current_state = "menu"
    /\ calls < MaxCalls
    /\ \E level_info \in LevelInfos, ship_image \in ShipImages :
          /\ Becomes(switch_to_playing(Self, level_info, ship_image, now))
          /\ call' = [op |-> "switch_to_playing", level_info |-> level_info,
                         asset_found |-> ship_image # None,
                         returned |-> switch_to_playing_returns(level_info, ship_image)]
    /\ raised' = "none"
    /\ calls' = calls + 1
    /\ UNCHANGED <<probe, now, session>>

\* One input step of a frame in play.
HandleGameInput ==
    /\ current_state = "playing"
    /\ calls < MaxCalls
    /\ \E thrust, rotate_left, rotate_right, back_to_menu, reset_level \in BOOLEAN :
          /\ Returns(handle_game_input(Self, now, thrust, rotate_left, rotate_right,
                                       back_to_menu, reset_level))
          /\ call' = [op |-> "handle_game_input", thrust |-> thrust,
                         rotate_left |-> rotate_left, rotate_right |-> rotate_right,
                         back_to_menu |-> back_to_menu, reset_level |-> reset_level]
    /\ calls' = calls + 1
    /\ UNCHANGED <<probe, now, session>>

\* One simulation tick of a frame in play.
UpdateGameplay ==
    /\ current_state = "playing"
    /\ calls < MaxCalls
    /\ \E delta_time \in DeltaTimes :
          /\ Returns(update_gameplay(Self, now, delta_time))
          /\ call' = [op |-> "update_gameplay", delta_time |-> delta_time]
    /\ calls' = calls + 1
    /\ UNCHANGED <<probe, now, session>>

Init == probe = None /\ GameInit

Next == ClockAdvance \/ SwitchToPlaying \/ HandleGameInput \/ UpdateGameplay

Spec == Init /\ [][Next]_vars

\* ------------------------------------------------------------------------
\* A long flight: one level entry, a few input steps at the start, then
\* one tick per frame at the default delta_time.

MaxFlightCalls == 128
MaxSteerCalls == 4

FlightLevels ==
    { [name |-> "Ryan Level", file |-> FloorLevel],
      [name |-> "Ryan Level", file |-> CeilingLevel] }

FlightInit ==
    /\ probe = None
    /\ GameInit
    /\ screen = <<LEVEL_WIDTH, LEVEL_HEIGHT>>
    /\ best_ghosts = << >>

\* The menu selects a level.
FlightEnter ==
    /\ current_state = "menu"
    /\ calls = 0
    /\ \E level_info \in FlightLevels :
          /\ Becomes(switch_to_playing(Self, level_info, ShipImage, now))
          /\ call' = [op |-> "switch_to_playing", level_info |-> level_info,
                         asset_found |-> TRUE, returned |-> TRUE]
    /\ raised' = "none"
    /\ calls' = calls + 1
    /\ UNCHANGED <<probe, now, session>>

\* An input step with thrust or rotate-right held.
FlightSteer ==
    /\ current_state = "playing"
    /\ calls < MaxSteerCalls
    /\ \E thrust, rotate_right \in BOOLEAN :
          /\ thrust \/ rotate_right
          /\ Returns(handle_game_input(Self, now, thrust, FALSE, rotate_right,
                                       FALSE, FALSE))
          /\ call' = [op |-> "handle_game_input", thrust |-> thrust,
                         rotate_left |-> FALSE, rotate_right |-> rotate_right,
                         back_to_menu |-> FALSE, reset_level |-> FALSE]
    /\ calls' = calls + 1
    /\ UNCHANGED <<probe, now, session>>

\* One simulation tick, update_gameplay(), a frame after the last one.
FlightTick ==
    /\ current_state = "playing"
    /\ calls < MaxFlightCalls
    /\ Returns(update_gameplay(Self, now, 1))
    /\ call' = [op |-> "update_gameplay", delta_time |-> 1]
    /\ calls' = calls + 1
    /\ now' = now + FrameMs
    /\ UNCHANGED <<probe, session>>

FlightNext == FlightEnter \/ FlightSteer \/ FlightTick

SpecFlight == FlightInit /\ [][FlightNext]_vars

(***************************************************************************)
(* Level queries on their own: every small map, every small sprite          *)
(***************************************************************************)
\* At most this many pixels of a test map differ from its background.
MaxPainted == 1

\* Query coordinates run from this many pixels before the map to half a
\* pixel past it, in half-pixel steps.
ProbePad == 2

TestColors == {Black, White, Green, Red, Blue, Grey, NearBlue}

TestLevelSizes == {<<2, 1>>, <<1, 2>>, <<2, 2>>}

TestBackgrounds == {White, Black}

Paintings(w, h) ==
    UNION { [D -> TestColors] :
              D \in { S \in SUBSET Cells(w, h) : Cardinality(S) <= MaxPainted } }

TestLevels ==
    UNION { { MkLevel(wh[1], wh[2], bg, f) :
                bg \in TestBackgrounds, f \in Paintings(wh[1], wh[2]) } :
            wh \in TestLevelSizes }

\* Alpha values: fully transparent, barely visible, opaque.
TestAlphas == {0, 1, 255}

TestSpriteSizes == {<<2, 1>>, <<1, 2>>}

TestSprites ==
    UNION { { MkSurface(wh[1], wh[2], a) : a \in [Cells(wh[1], wh[2]) -> TestAlphas] } :
            wh \in TestSpriteSizes }

ProbeCoords(extent) == { k * Half : k \in (-(2 * ProbePad))..((2 * extent) + 1) }

NoQuery == [kind |-> "none", x |-> 0, y |-> 0, result |-> << >>]

\* A map and a sprite are loaded; no game is running.
LevelInit ==
    /\ GameInit
    /\ screen = <<LEVEL_WIDTH, LEVEL_HEIGHT>>
    /\ \E lv \in TestLevels, sp \in TestSprites :
          probe = [level |-> lv, sprite |-> sp, query |-> NoQuery]

\* A caller asks for the classification of one point.
ProbePoint ==
    /\ probe.query = NoQuery
    /\ \E x \in ProbeCoords(probe.level.width), y \in ProbeCoords(probe.level.height) :
          probe' = [probe EXCEPT !.query =
                      [kind |-> "point", x |-> x, y |-> y,
                       result |-> <<check_collision_at_point(probe.level, x, y)>>]]
    /\ UNCHANGED gameVars

\* A caller asks for the footprint flags of the sprite placed at (x, y).
ProbeFootprint ==
    /\ probe.query = NoQuery
    /\ \E x \in ProbeCoords(probe.level.width), y \in ProbeCoords(probe.level.height) :
          probe' = [probe EXCEPT !.query =
                      [kind |-> "footprint", x |-> x, y |-> y,
                       result |-> check_spaceship_collisions(
                                    probe.level, probe.sprite, x, y)]]
    /\ UNCHANGED gameVars

LevelNext == ProbePoint \/ ProbeFootprint

SpecLevel == LevelInit /\ [][LevelNext]_vars

(***************************************************************************)
(* A ghost playback on its own: loaded, started, sampled and stopped        *)
(***************************************************************************)
\* Frames in a loaded recording.
MaxFrames == 3
\* The playback clock runs to here, in steps of PlaybackStep (ms).
MaxPlaybackNow == 30
PlaybackStep == 10

TestTimestamps == {0, 5, 10, 20}

\* Frame i of a test recording carries its index as x, so that frames with
\* equal timestamps differ.
TestFrame(ts, i) == [timestamp |-> ts, x |-> Px(i), y |-> Px(START_Y), rotation |-> 6 * i]

NonDecreasing(ts) == \A i \in 1..(Len(ts) - 1) : ts[i] <= ts[i + 1]

\* Recordings as the recorder makes them: timestamps never decrease.
TestRecordings ==
    UNION { { [i \in 1..n |-> TestFrame(ts[i], i)] :
                ts \in { q \in [1..n -> TestTimestamps] : NonDecreasing(q) } } :
            n \in 0..MaxFrames }

PlaybackInit ==
    /\ GameInit
    /\ screen = <<LEVEL_WIDTH, LEVEL_HEIGHT>>
    /\ best_ghosts = << >>
    /\ \E d \in TestRecordings : probe = [data |-> d, op |-> "none", frame |-> None]

\* pygame.time.get_ticks() moves on.
PlaybackClock ==
    /\ now + PlaybackStep <= MaxPlaybackNow
    /\ now' = now + PlaybackStep
    /\ UNCHANGED <<probe, screen, current_state, current_level, spaceship,
                   selected_level, level_completed, ghost_recorder, ghost_playback,
                   ghost, timer, input_manager, best_ghosts, scoreboard, username, menu_state,
                   session, call, raised, calls>>

\* "load_playback_data(data); start_playback()"
PlaybackStart ==
    /\ ghost_playback' = start_playback(load_playback_data(ghost_playback, probe.data), now)
    /\ probe' = [probe EXCEPT !.op = "start", !.frame = None]
    /\ UNCHANGED <<screen, current_state, current_level, spaceship,
                   selected_level, level_completed, ghost_recorder,
                   ghost, timer, input_manager, best_ghosts, scoreboard, username, menu_state,
                   session, now, call, raised, calls>>

\* "stop_playback()"
PlaybackStop ==
    /\ ghost_playback' = stop_playback(ghost_playback)
    /\ probe' = [probe EXCEPT !.op = "stop", !.frame = None]
    /\ UNCHANGED <<screen, current_state, current_level, spaceship,
                   selected_level, level_completed, ghost_recorder,
                   ghost, timer, input_manager, best_ghosts, scoreboard, username, menu_state,
                   session, now, call, raised, calls>>

\* "get_current_ghost_state()"
PlaybackSample ==
    /\ ghost_playback' = get_current_ghost_state(ghost_playback, now).playback
    /\ probe' = [probe EXCEPT !.op = "sample",
                              !.frame = get_current_ghost_state(ghost_playback, now).frame]
    /\ UNCHANGED <<screen, current_state, current_level, spaceship,
                   selected_level, level_completed, ghost_recorder,
                   ghost, timer, input_manager, best_ghosts, scoreboard, username, menu_state,
                   session, now, call, raised, calls>>

PlaybackNext == PlaybackClock \/ PlaybackStart \/ PlaybackStop \/ PlaybackSample

SpecPlayback == PlaybackInit /\ [][PlaybackNext]_vars

(***************************************************************************)
(* A timer on its own: started, updated, stopped, and times formatted       *)
(***************************************************************************)
\* The timer's clock runs to here, in steps of TimerStep (ms).
MaxTimerNow == 21
TimerStep == 7

\* Elapsed times (ms) around every carry of MM:SS.mmm, to 100 minutes and
\* a little beyond.
TestTimes ==
    {0, 1, 9, 10, 99, 100, 999, 1000, 1001, 9999, 10000, 59999, 60000, 60001,
     125999, 599999, 600000, 3599999, 3600000, 5999999, 6000000, 6000001}

NoTimes == [a |-> 0, b |-> 0, text_a |-> << >>, text_b |-> << >>]

TimerInit ==
    /\ GameInit
    /\ screen = <<LEVEL_WIDTH, LEVEL_HEIGHT>>
    /\ best_ghosts = << >>
    /\ probe = NoTimes

\* pygame.time.get_ticks() moves on.
TimerClock ==
    /\ now + TimerStep <= MaxTimerNow
    /\ now' = now + TimerStep
    /\ UNCHANGED <<probe, screen, current_state, current_level, spaceship,
                   selected_level, level_completed, ghost_recorder, ghost_playback,
                   ghost, timer, input_manager, best_ghosts, scoreboard, username, menu_state,
                   session, call, raised, calls>>

\* "self.timer.start()"
TimerStart ==
    /\ timer' = timer_start(timer, now)
    /\ call' = [op |-> "timer.start"]
    /\ UNCHANGED <<probe, screen, current_state, current_level, spaceship,
                   selected_level, level_completed, ghost_recorder, ghost_playback,
                   ghost, input_manager, best_ghosts, scoreboard, username, menu_state,
                   session, now, raised, calls>>

\* "self.timer.stop()"
TimerStop ==
    /\ timer' = timer_stop(timer)
    /\ call' = [op |-> "timer.stop"]
    /\ UNCHANGED <<probe, screen, current_state, current_level, spaceship,
                   selected_level, level_completed, ghost_recorder, ghost_playback,
                   ghost, input_manager, best_ghosts, scoreboard, username, menu_state,
                   session, now, raised, calls>>

\* update_gameplay() with no ship in play: only the timer is updated.
TimerTick ==
    /\ Returns(update_gameplay(Self, now, 1))
    /\ call' = [op |-> "update_gameplay", delta_time |-> 1]
    /\ UNCHANGED <<probe, now, calls, session>>

\* Two elapsed times are formatted.
FormatTimes ==
    /\ probe = NoTimes
    /\ \E a, b \in TestTimes :
          probe' = [a |-> a, b |-> b,
                    text_a |-> format_timer(a), text_b |-> format_timer(b)]
    /\ UNCHANGED gameVars

TimerNext == TimerClock \/ TimerStart \/ TimerStop \/ TimerTick \/ FormatTimes

SpecTimer == TimerInit /\ [][TimerNext]_vars

(***************************************************************************)
(* The leaderboard and the best ghosts: the host awaits                    *)
(* initialize_scoreboard and handle_level_completion between frames, and   *)
(* any request to the store may fail.                                      *)
(***************************************************************************)
MaxBoardCalls == 5

BoardLevels == { [name |-> "Ryan Level", file |-> FloorLevel] }

Usernames == {"ann"}

\* What the store holds when the game starts: a leaderboard with one entry
\* or none, and the Ryan Level ghost or none.
RemoteStores ==
    { (ScoreboardUrl :> board) @@ (best_ghost_urls[1].url :> ryan)
        @@ [u \in {best_ghost_urls[2].url, best_ghost_urls[3].url} |-> << >>] :
      board \in { << >>, ("Ryan Level" :> ("bob" :> format_timer(61001))) },
      ryan \in { << >>, ("Ryan Level" :> DownloadedGhost) } }

\* The requests of one call that fail: none, or one of them.
FailingRequests == { {} } \cup { {i} : i \in 1..(Len(best_ghost_urls) + 1) }

BoardInit ==
    /\ probe = None
    /\ screen = <<LEVEL_WIDTH, LEVEL_HEIGHT>>
    /\ current_state = "menu"
    /\ current_level = None
    /\ spaceship = None
    /\ selected_level = NoName
    /\ level_completed = FALSE
    /\ ghost_recorder = NewGhostRecorder
    /\ ghost_playback = NewGhostPlayback
    /\ ghost = None
    /\ timer = NewGameTimer
    /\ input_manager = NewInputManager
    /\ best_ghosts = << >>
    /\ scoreboard = << >>
    /\ username = NoName
    /\ menu_state = None
    /\ \E store \in RemoteStores : session = [store |-> store, puts |-> 0]
    /\ now = 0
    /\ call = NoCall
    /\ raised = "none"
    /\ calls = 0

\* The host loads the leaderboard and the ghosts.
InitializeScoreboard ==
    /\ current_state = "menu"
    /\ calls < MaxBoardCalls
    /\ \E fails \in FailingRequests :
          /\ Becomes(initialize_scoreboard(Self, session, fails).self)
          /\ call' = [op |-> "initialize_scoreboard", fails |-> fails,
                         returned |-> initialize_scoreboard(Self, session, fails).returned]
    /\ raised' = "none"
    /\ calls' = calls + 1
    /\ UNCHANGED <<probe, now, session>>

\* The player gives a name.
SetUsername ==
    /\ username = NoName
    /\ \E name \in Usernames :
          /\ Becomes(set_username(Self, name))
          /\ call' = [op |-> "set_username", name |-> name]
    /\ raised' = "none"
    /\ UNCHANGED <<probe, now, session, calls>>

\* The menu selects a level.
BoardEnter ==
    /\ current_state = "menu"
    /\ calls < MaxBoardCalls
    /\ \E level_info \in BoardLevels :
          /\ Becomes(switch_to_playing(Self, level_info, ShipImage, now))
          /\ call' = [op |-> "switch_to_playing", level_info |-> level_info,
                         asset_found |-> TRUE,
                         returned |-> ~GhostRaises(Self, level_info.name)]
    /\ raised' = "none"
    /\ calls' = calls + 1
    /\ UNCHANGED <<probe, now, session>>

\* One input step of a frame in play: nothing held, or back-to-menu.
BoardInput ==
    /\ current_state = "playing"
    /\ calls < MaxBoardCalls
    /\ \E back_to_menu \in BOOLEAN :
          /\ Returns(handle_game_input(Self, now, FALSE, FALSE, FALSE, back_to_menu, FALSE))
          /\ call' = [op |-> "handle_game_input", thrust |-> FALSE,
                         rotate_left |-> FALSE, rotate_right |-> FALSE,
                         back_to_menu |-> back_to_menu, reset_level |-> FALSE]
    /\ calls' = calls + 1
    /\ UNCHANGED <<probe, now, session>>

\* One simulation tick of a frame in play.
BoardTick ==
    /\ current_state = "playing"
    /\ calls < MaxBoardCalls
    /\ Returns(update_gameplay(Self, now, 1))
    /\ call' = [op |-> "update_gameplay", delta_time |-> 1]
    /\ calls' = calls + 1
    /\ UNCHANGED <<probe, now, session>>

\* The host awaits handle_level_completion.
HandleLevelCompletion ==
    /\ calls < MaxBoardCalls
    /\ \E fails \in FailingRequests :
          /\ Becomes(handle_level_completion(Self, session, fails).self)
          /\ session' = handle_level_completion(Self, session, fails).session
          /\ raised' = handle_level_completion(Self, session, fails).raised
          /\ call' = [op |-> "handle_level_completion", fails |-> fails,
                         returned |-> handle_level_completion(Self, session, fails).returned]
    /\ calls' = calls + 1
    /\ UNCHANGED <<probe, now>>

BoardNext ==
    \/ InitializeScoreboard \/ SetUsername \/ BoardEnter \/ BoardInput
    \/ BoardTick \/ HandleLevelCompletion

SpecBoard == BoardInit /\ [][BoardNext]_vars

(***************************************************************************)
(* The discrete inputs: the host calls handle_menu_input in the menu and   *)
(* handle_game_input in play, once per frame, with whatever is held.       *)
(***************************************************************************)
MaxInputNow == 1200
InputStep == 100

\* What the three level files hold: the last one is missing, so selecting
\* it leaves the game in the menu.
InputFiles == <<FloorLevel, GoalLevel, None>>

\* The time of the last accepted activation of each input, as a set: empty
\* until there was one.
NoActivations == [navigate |-> {}, select |-> {}, reset |-> {}]

InputInit ==
    /\ probe = NoActivations
    /\ screen = <<LEVEL_WIDTH, LEVEL_HEIGHT>>
    /\ current_state = "menu"
    /\ current_level = None
    /\ spaceship = None
    /\ selected_level = NoName
    /\ level_completed = FALSE
    /\ ghost_recorder = NewGhostRecorder
    /\ ghost_playback = NewGhostPlayback
    /\ ghost = None
    /\ timer = NewGameTimer
    /\ input_manager = NewInputManager
    /\ best_ghosts = << >>
    /\ scoreboard = << >>
    /\ username = NoName
    /\ menu_state = NewMenuState(<< >>)
    /\ session = NewRequestHandler
    /\ now = 0
    /\ call = NoCall
    /\ raised = "none"
    /\ calls = 0

\* pygame.time.get_ticks() moves on.
InputClock ==
    /\ now + InputStep <= MaxInputNow
    /\ now' = now + InputStep
    /\ UNCHANGED <<probe, screen, current_state, current_level, spaceship,
                   selected_level, level_completed, ghost_recorder, ghost_playback,
                   ghost, timer, input_manager, best_ghosts, scoreboard, username,
                   menu_state, session, call, raised, calls>>

\* One frame in the menu.
HandleMenuInput ==
    /\ current_state = "menu"
    /\ \E up, down, select \in BOOLEAN :
          /\ Becomes(handle_menu_input(Self, now, up, down, select,
                                       InputFiles, ShipImage).self)
          /\ call' = [op |-> "handle_menu_input",
                      navigate_up |-> up, navigate_down |-> down, select |-> select,
                      moved |-> handle_menu_input(Self, now, up, down, select,
                                                  InputFiles, ShipImage).moved,
                      selected |-> handle_menu_input(Self, now, up, down, select,
                                                     InputFiles, ShipImage).selected]
          /\ probe' = [probe EXCEPT
                         !.navigate =
                             IF handle_menu_input(Self, now, up, down, select,
                                                  InputFiles, ShipImage).moved # "none"
                             THEN {now} ELSE @,
                         !.select =
                             IF handle_menu_input(Self, now, up, down, select,
                                                  InputFiles, ShipImage).selected
                             THEN {now} ELSE @]
    /\ raised' = "none"
    /\ UNCHANGED <<now, session, calls>>

\* One input step of a frame in play: reset and back-to-menu held or not.
HandlePlayInput ==
    /\ current_state = "playing"
    /\ \E back_to_menu, reset_level \in BOOLEAN :
          /\ Returns(handle_game_input(Self, now, FALSE, FALSE, FALSE,
                                       back_to_menu, reset_level))
          /\ call' = [op |-> "handle_game_input", thrust |-> FALSE,
                      rotate_left |-> FALSE, rotate_right |-> FALSE,
                      back_to_menu |-> back_to_menu, reset_level |-> reset_level,
                      reset |-> check_debounced_reset(input_manager, reset_level,
                                                      now).accepted]
          /\ probe' = [probe EXCEPT
                         !.reset =
                             IF check_debounced_reset(input_manager, reset_level,
                                                      now).accepted
                             THEN {now} ELSE @]
    /\ UNCHANGED <<now, session, calls>>

InputNext == InputClock \/ HandleMenuInput \/ HandlePlayInput

SpecInput == InputInit /\ [][InputNext]_vars

(***************************************************************************)
(* Properties of the level queries (behaviours of SpecLevel)                *)
(***************************************************************************)
\* The palette as the specification states it: the category of an RGB
\* value, SOLID for every colour outside the palette.
PaletteCategory(c) ==
    IF c = White THEN "FREE"
    ELSE IF c = Green THEN "GOAL"
    ELSE IF c = Red THEN "HAZARD"
    ELSE IF c = Blue THEN "SPECIAL"
    ELSE "SOLID"

\* The last query was a point query / a footprint query.
PointQueried == probe.query.kind = "point"

FootprintQueried == probe.query.kind = "footprint"

\* The queried point lies inside the map.
QueryInBounds ==
    /\ 0 <= probe.query.x /\ probe.query.x < Px(probe.level.width)
    /\ 0 <= probe.query.y /\ probe.query.y < Px(probe.level.height)

\* The map cell under sprite pixel p for the queried origin; the origin
\* is truncated to a pixel index as the scan truncates it.
CellUnder(p) == <<ToInt(probe.query.x) + p[1], ToInt(probe.query.y) + p[2]>>

\* The sprite pixels that lie over a map cell, i.e. inside the intersection
\* of the sprite's box and the map.
PixelsOverMap ==
    { p \in Cells(probe.sprite.w, probe.sprite.h) :
        /\ CellUnder(p)[1] \in 0..(probe.level.width - 1)
        /\ CellUnder(p)[2] \in 0..(probe.level.height - 1) }

\* The sprite pixels over a map cell of the given category.
PixelsOver(category) ==
    { p \in PixelsOverMap :
        PaletteCategory(get_at(probe.level, CellUnder(p)[1], CellUnder(p)[2])) = category }

\* C1: every point query with x < 0, x >= width, y < 0 or y >= height of
\* the map answers SOLID.
C1_OutOfBoundsIsSolid ==
    (PointQueried /\ ~QueryInBounds) => probe.query.result = <<"SOLID">>

\* A point exactly on the right edge (x = width) of an all-white map was
\* queried and answered SOLID.
C1_Witness ==
    /\ PointQueried
    /\ probe.query.x = Px(probe.level.width)
    /\ probe.query.y \in 0..(Px(probe.level.height) - 1)
    /\ probe.level.bg = White /\ DOMAIN probe.level.painted = {}
    /\ probe.query.result = <<"SOLID">>

\* C2: every in-bounds point query answers the category whose palette
\* colour equals the cell's RGB exactly, and SOLID for every other colour.
C2_PaletteClassification ==
    (PointQueried /\ QueryInBounds) =>
        probe.query.result =
            <<PaletteCategory(get_at(probe.level, ToInt(probe.query.x),
                                     ToInt(probe.query.y)))>>

\* A cell one unit of blue away from the goal-trigger colour was queried,
\* at a fractional coordinate, and answered SOLID.
C2_Witness ==
    /\ PointQueried /\ QueryInBounds
    /\ probe.query.x % Scale # 0
    /\ get_at(probe.level, ToInt(probe.query.x), ToInt(probe.query.y)) = NearBlue
    /\ probe.query.result = <<"SOLID">>

\* C3: the solid flag of a footprint query is true exactly when some sprite
\* pixel with alpha > 0 lies over a SOLID map cell inside the intersection
\* of the sprite's box and the map; transparent pixels never set it.
C3_SolidFlagPixelExact ==
    FootprintQueried =>
        (probe.query.result[1] <=>
            \E p \in PixelsOver("SOLID") : probe.sprite.alpha[p] > 0)

\* A sprite placed partly off the left edge has a barely visible pixel
\* (alpha 1) over a solid cell and the flag is set.
C3_Witness ==
    /\ FootprintQueried
    /\ probe.query.x < 0
    /\ PixelsOverMap # Cells(probe.sprite.w, probe.sprite.h)
    /\ \E p \in PixelsOver("SOLID") : probe.sprite.alpha[p] = 1
    /\ \A p \in PixelsOver("SOLID") : probe.sprite.alpha[p] <= 1
    /\ probe.query.result[1]

\* C4: a footprint query with a sprite whose every pixel is fully
\* transparent reports no solid, no special and no hazard collision.
C4_TransparentSpriteHitsNothing ==
    (FootprintQueried /\ \A p \in Cells(probe.sprite.w, probe.sprite.h) :
                            probe.sprite.alpha[p] = 0)
        => probe.query.result = <<FALSE, FALSE, FALSE>>

\* A fully transparent sprite lay wholly inside a map whose cells under it
\* were solid, and nothing was reported.
C4_Witness ==
    /\ FootprintQueried
    /\ \A p \in Cells(probe.sprite.w, probe.sprite.h) : probe.sprite.alpha[p] = 0
    /\ PixelsOverMap = Cells(probe.sprite.w, probe.sprite.h)
    /\ PixelsOver("SOLID") = PixelsOverMap
    /\ probe.query.result = <<FALSE, FALSE, FALSE>>

(***************************************************************************)
(* Properties of a gameplay tick (behaviours of Spec)                      *)
(***************************************************************************)
\* This step is a call of update_gameplay that runs the physics: the level
\* is not completed and a ship and a level are loaded.
PhysicsTick ==
    /\ calls' = calls + 1
    /\ call'.op = "update_gameplay"
    /\ ~level_completed /\ spaceship # None /\ current_level # None

\* The velocity and position the integration step of this tick produces:
\* gravity is added to the vertical velocity, then the position advances by
\* velocity times delta_time.
IntegratedVx == spaceship.velocity_x

IntegratedVy == spaceship.velocity_y + GRAVITY

IntegratedX == spaceship.x + (IntegratedVx * call'.delta_time)

IntegratedY == spaceship.y + (IntegratedVy * call'.delta_time)

\* The ship s, placed at (x, y), has a non-transparent pixel of its current
\* image over a map cell of the given category.
ShipOverlaps(level, s, x, y, category) ==
    \E p \in Cells(s.current_image.w, s.current_image.h) :
        /\ s.current_image.alpha[p] > 0
        /\ ToInt(collision_origin(s, x, y)[1]) + p[1] \in 0..(level.width - 1)
        /\ ToInt(collision_origin(s, x, y)[2]) + p[2] \in 0..(level.height - 1)
        /\ PaletteCategory(get_at(level,
                                  ToInt(collision_origin(s, x, y)[1]) + p[1],
                                  ToInt(collision_origin(s, x, y)[2]) + p[2])) = category

\* The ship s, placed at (x, y), crosses a left/right or a top/bottom edge
\* of the screen.
CrossesX(s, x) == x < 0 \/ x + Px(s.original_image.w) > Px(screen[1])

CrossesY(s, y) == y < 0 \/ y + Px(s.original_image.h) > Px(screen[2])

\* What the post-integration position of this tick runs into.
GoalHit == ShipOverlaps(current_level, spaceship, IntegratedX, IntegratedY, "SPECIAL")

SolidHit == ShipOverlaps(current_level, spaceship, IntegratedX, IntegratedY, "SOLID")

BoundaryHit == CrossesX(spaceship, IntegratedX) \/ CrossesY(spaceship, IntegratedY)

\* The ship ends the tick where and as fast as the integration left it.
IntegrationKept ==
    /\ spaceship'.x = IntegratedX
    /\ spaceship'.y = IntegratedY
    /\ spaceship'.velocity_x = IntegratedVx
    /\ spaceship'.velocity_y = IntegratedVy

\* A velocity component changed sign / kept its sign over the resolver.
Flipped(before, after) == before * after < 0

Kept(before, after) == before * after > 0

\* The component v, if large enough to have a sign after halving, is
\* negated exactly when negate holds.
NegatedIff(negate, before, after) ==
    Abs(before) >= 2 => IF negate THEN Flipped(before, after) ELSE Kept(before, after)

\* C5: a tick whose post-integration footprint overlaps a goal-trigger
\* (SPECIAL) cell signals level-complete in that tick and applies no bounce,
\* rollback or damping, also when the footprint overlaps SOLID as well or
\* the ship is out of bounds.
C5_GoalHitCompletesLevel ==
    [][(PhysicsTick /\ GoalHit) => (level_completed' /\ IntegrationKept)]_vars

\* The resolver of update_gameplay, run on the present state with the flags
\* the footprint check gives for it, leaves the ship as it is.
ResolverLeavesShipAlone ==
    resolve_collision(
        Self, now,
        check_spaceship_collisions(current_level, spaceship.current_image,
                                   get_collision_rect_info(spaceship)[1],
                                   get_collision_rect_info(spaceship)[2])[1],
        check_spaceship_collisions(current_level, spaceship.current_image,
                                   get_collision_rect_info(spaceship)[1],
                                   get_collision_rect_info(spaceship)[2])[2]
    ).self.spaceship = spaceship

\* The ship is in play at a position inside the screen whose footprint
\* overlaps neither a SOLID nor a goal cell.
AcceptedPosition ==
    /\ spaceship # None /\ current_level # None /\ ~level_completed
    /\ ~CrossesX(spaceship, spaceship.x) /\ ~CrossesY(spaceship, spaceship.y)
    /\ ~ShipOverlaps(current_level, spaceship, spaceship.x, spaceship.y, "SOLID")
    /\ ~ShipOverlaps(current_level, spaceship, spaceship.x, spaceship.y, "SPECIAL")

\* C6: when the post-integration position is inside the screen and its
\* footprint overlaps neither a SOLID nor a goal cell, the tick ends with
\* the integrated position and velocity; and the resolver, run on any such
\* position, changes neither the position nor the velocity.
C6_ResolverNoOp ==
    [][/\ AcceptedPosition => ResolverLeavesShipAlone
       /\ (PhysicsTick /\ ~BoundaryHit /\ ~SolidHit /\ ~GoalHit) => IntegrationKept]_vars

\* A tick has moved the falling ship by its velocity times delta_time to a
\* position inside the screen that touches nothing, and it stayed there.
C6_Witness ==
    /\ call.op = "update_gameplay"
    /\ AcceptedPosition
    /\ spaceship.velocity_y > 0
    /\ spaceship.y = spaceship.prev_y + (spaceship.velocity_y * call.delta_time)
    /\ ResolverLeavesShipAlone

\* The two isolated-axis tests of a geometry collision: the footprint at
\* (previous x, new y) and at (new x, previous y) is free of solid.
FreeAtPreviousX ==
    ~ShipOverlaps(current_level, spaceship, spaceship.x, IntegratedY, "SOLID")

FreeAtPreviousY ==
    ~ShipOverlaps(current_level, spaceship, IntegratedX, spaceship.y, "SOLID")

\* C7: in a geometry collision (inside the screen, footprint over SOLID, no
\* goal hit), with A = FreeAtPreviousX and B = FreeAtPreviousY, x alone is
\* negated when A and not B, y alone when B and not A, both when A and B,
\* both when neither.
C7_GeometryBounceTable ==
    [][(PhysicsTick /\ ~GoalHit /\ ~BoundaryHit /\ SolidHit)
          => /\ NegatedIff(FreeAtPreviousX \/ ~FreeAtPreviousY,
                           IntegratedVx, spaceship'.velocity_x)
             /\ NegatedIff(FreeAtPreviousY \/ ~FreeAtPreviousX,
                           IntegratedVy, spaceship'.velocity_y)]_vars

\* C8: in a screen-boundary collision the x velocity is negated exactly
\* when the left or right edge was crossed and the y velocity exactly when
\* the top or bottom edge was crossed.
C8_BoundaryBounceAxes ==
    [][(PhysicsTick /\ ~GoalHit /\ BoundaryHit)
          => /\ NegatedIff(CrossesX(spaceship, IntegratedX),
                           IntegratedVx, spaceship'.velocity_x)
             /\ NegatedIff(CrossesY(spaceship, IntegratedY),
                           IntegratedVy, spaceship'.velocity_y)]_vars

\* C9: a tick that ends in a collision (out of the screen or over SOLID, no
\* goal hit) ends with the ship exactly where it was before the integration.
C9_CollisionRollsBack ==
    [][(PhysicsTick /\ ~GoalHit /\ (BoundaryHit \/ SolidHit))
          => (spaceship'.x = spaceship.x /\ spaceship'.y = spaceship.y)]_vars

\* C10: a tick that ends in a collision ends with each velocity component
\* at half the magnitude the integration gave it.
C10_CollisionHalvesVelocity ==
    [][(PhysicsTick /\ ~GoalHit /\ (BoundaryHit \/ SolidHit))
          => /\ Abs(spaceship'.velocity_x) = Abs(IntegratedVx) \div 2
             /\ Abs(spaceship'.velocity_y) = Abs(IntegratedVy) \div 2]_vars

\* The ship was at rest, clear of solid, and the last input step gave it
\* one thrust straight up (rotation 0).
ThrustFromRest ==
    /\ call.op = "handle_game_input" /\ call.thrust
    /\ spaceship.rotation = 0
    /\ spaceship.velocity_x = 0 /\ spaceship.velocity_y = -THRUST_POWER
    /\ ~ShipOverlaps(current_level, spaceship, spaceship.x, spaceship.y, "SOLID")

\* C11: a ship at rest on FREE cells next to a SOLID wall that is given one
\* thrust straight into the wall ends the tick at its pre-tick position,
\* with the velocity along the thrust axis negated and halved.
C11_ThrustIntoWallBounces ==
    [][(PhysicsTick /\ ThrustFromRest /\ SolidHit /\ ~BoundaryHit /\ ~GoalHit)
          => /\ spaceship'.x = spaceship.x /\ spaceship'.y = spaceship.y
             /\ Flipped(IntegratedVy, spaceship'.velocity_y)
             /\ Abs(spaceship'.velocity_y) = Abs(IntegratedVy) \div 2]_vars

\* C12: after every gameplay tick both velocity components of the ship lie
\* within [MIN_VELOCITY, MAX_VELOCITY], whatever was thrust and however many
\* ticks have run.
C12_VelocityWithinLimits ==
    (call.op = "update_gameplay" /\ spaceship # None)
        => /\ Px(MIN_VELOCITY) <= spaceship.velocity_x
           /\ spaceship.velocity_x <= Px(MAX_VELOCITY)
           /\ Px(MIN_VELOCITY) <= spaceship.velocity_y
           /\ spaceship.velocity_y <= Px(MAX_VELOCITY)

(***************************************************************************)
(* Properties of a completed level (behaviours of Spec)                    *)
(***************************************************************************)
\* The manager as it would be had line 283 just set the flag.
Completed == [Self EXCEPT !.level_completed = TRUE]

\* The call left the flag set and the ship as it was.
ShipFrozen(res) ==
    res.self.level_completed => res.self.spaceship = spaceship

\* The input neither returns to the menu nor resets the level.
StaysInAttempt(back_to_menu, reset_level) ==
    /\ ~back_to_menu
    /\ ~check_debounced_reset(input_manager, reset_level, now).accepted

\* C13: once the level-completed flag is set, an input step or a tick
\* leaves the ship's position, velocity and rotation as they were, unless
\* the step resets the level or leaves it.
C13_CompletedShipFrozen ==
    (current_state = "playing" /\ spaceship # None)
        => /\ \A thrust, rotate_left, rotate_right, back_to_menu, reset_level \in BOOLEAN :
                 StaysInAttempt(back_to_menu, reset_level)
                    => /\ ShipFrozen(handle_game_input(Completed, now, thrust, rotate_left,
                                                       rotate_right, back_to_menu, reset_level))
                       /\ handle_game_input(Completed, now, thrust, rotate_left, rotate_right,
                                            back_to_menu, reset_level).self.level_completed
           /\ \A delta_time \in DeltaTimes :
                 /\ ShipFrozen(update_gameplay(Completed, now, delta_time))
                 /\ update_gameplay(Completed, now, delta_time).self.level_completed

\* A ship in play that is moving and has been turned.
C13_Witness ==
    /\ current_state = "playing" /\ spaceship # None /\ current_level # None
    /\ spaceship.velocity_y # 0 /\ spaceship.rotation # 0
    /\ ShipFrozen(update_gameplay(Completed, now, 1))
    /\ update_gameplay(Self, now, 1).self.spaceship # spaceship

(***************************************************************************)
(* Properties of rotation (behaviours of Spec)                             *)
(***************************************************************************)
RotationInRange(e) == e # None => (0 <= e.rotation /\ e.rotation < 360)

\* An input step on a ship in play that neither leaves the level nor
\* resets it.
SteerStep ==
    /\ calls' = calls + 1 /\ call'.op = "handle_game_input"
    /\ ~call'.back_to_menu
    /\ spaceship # None /\ spaceship' # None
    /\ input_manager' = input_manager

\* C14: after any sequence of level entries, resets, rotation inputs and
\* ghost-frame updates the rotation r of the ship and of the ghost satisfies
\* 0 <= r < 360; a left rotation from 0 wraps to 360 - ROTATION_SPEED.
C14_RotationNormalised ==
    [][/\ RotationInRange(spaceship') /\ RotationInRange(ghost')
       /\ (SteerStep /\ call'.rotate_left /\ spaceship.rotation = 0)
             => spaceship'.rotation = 360 - ROTATION_SPEED]_vars

\* The ship has wrapped below 0 and the ghost has been turned by a frame.
C14_Witness ==
    /\ spaceship # None /\ spaceship.rotation = 360 - ROTATION_SPEED
    /\ ghost # None /\ ghost.visible /\ ghost.rotation # 0

(***************************************************************************)
(* Properties of the stored previous position (behaviours of Spec)         *)
(***************************************************************************)
\* C15: in every tick that moves the ship, and so in every tick in which
\* the resolver can run, the stored previous position is the position the
\* ship had immediately before that tick's integration, and a rollback
\* puts the ship exactly there.
C15_PreviousIsPreTick ==
    [][PhysicsTick
          => /\ spaceship'.prev_x = spaceship.x /\ spaceship'.prev_y = spaceship.y
             /\ rollback_position(spaceship').x = spaceship.x
             /\ rollback_position(spaceship').y = spaceship.y]_vars

\* A tick moved the ship from its start row into solid; a rollback would
\* put it back on the start row.
C15_Witness ==
    /\ call.op = "update_gameplay" /\ calls = MaxCalls
    /\ spaceship # None /\ current_level # None
    /\ spaceship.y # spaceship.prev_y
    /\ ShipOverlaps(current_level, spaceship, spaceship.x, spaceship.y, "SOLID")
    /\ rollback_position(spaceship).y = Px(START_Y)

\* The rotation step an input asks for: left wins over right.
RotationAsked(c) ==
    IF c.rotate_left THEN -ROTATION_SPEED
    ELSE IF c.rotate_right THEN ROTATION_SPEED ELSE 0

RotatedIntoSolid ==
    /\ call.op = "handle_game_input" /\ (call.rotate_left \/ call.rotate_right)
    /\ spaceship # None /\ current_level # None
    /\ ShipOverlaps(current_level, spaceship, spaceship.x, spaceship.y, "SOLID")

\* C17: if a rotation leaves the footprint overlapping solid because no
\* safe position was found, then after the next tick the footprint no
\* longer overlaps solid.
C17_NextTickFreesShip ==
    [][(PhysicsTick /\ RotatedIntoSolid)
          => ~ShipOverlaps(current_level', spaceship', spaceship'.x,
                           spaceship'.y, "SOLID")]_vars

(***************************************************************************)
(* Properties of the ghost recorder (behaviours of Spec)                   *)
(***************************************************************************)
\* The frame appended last.
LastFrame(rec) == rec.frames[Len(rec.frames)]

\* C18: the ghost frame recorded for a colliding tick holds the position
\* the collision resolution gives the ship, which is the rolled-back
\* (pre-tick) position, and the ship's rotation.
C18_FrameHoldsResolvedPosition ==
    [][(/\ PhysicsTick /\ ghost_recorder.recording
        /\ (SolidHit \/ BoundaryHit) /\ ~GoalHit)
          => /\ Len(ghost_recorder'.frames) > 0
             /\ LastFrame(ghost_recorder').x = spaceship.x
             /\ LastFrame(ghost_recorder').y = spaceship.y
             /\ LastFrame(ghost_recorder').rotation = spaceship.rotation]_vars

\* A call of update_gameplay.
TickStep == calls' = calls + 1 /\ call'.op = "update_gameplay"

\* A call that restarted the recording: a level entry, or a reset input
\* (which may also hold back-to-menu, stopping the new recording at once).
RecordingRestarted ==
    /\ calls' = calls + 1
    /\ \/ /\ call'.op = "switch_to_playing"
          /\ ghost_recorder' = start_recording(ghost_recorder, now)
       \/ /\ call'.op = "handle_game_input" /\ call'.reset_level
          /\ \/ ghost_recorder' = start_recording(ghost_recorder, now)
             \/ /\ call'.back_to_menu
                /\ ghost_recorder' = stop_recording(start_recording(ghost_recorder, now))

\* C19: the recorder appends exactly one frame per tick while it is
\* recording and none otherwise; once recording has stopped (return to the
\* menu, completing tick) the frames stay as they are until the recording
\* is started again.
C19_OneFramePerRecordingTick ==
    [][/\ (TickStep /\ ghost_recorder.recording)
             => /\ Len(ghost_recorder'.frames) = Len(ghost_recorder.frames) + 1
                /\ SubSeq(ghost_recorder'.frames, 1, Len(ghost_recorder.frames))
                      = ghost_recorder.frames
       /\ ~(TickStep /\ ghost_recorder.recording)
             => \/ ghost_recorder'.frames = ghost_recorder.frames
                \/ RecordingRestarted
       /\ ~ghost_recorder.recording
             => \/ ghost_recorder' = ghost_recorder
                \/ RecordingRestarted]_vars

\* Back in the menu: the recording has stopped and holds the one frame of
\* the one tick that ran.
C19_Witness ==
    /\ current_state = "menu" /\ call.op = "handle_game_input"
    /\ ~ghost_recorder.recording
    /\ Len(ghost_recorder.frames) = 1

\* A level entry that succeeded.
LevelEntered ==
    /\ calls' = calls + 1 /\ call'.op = "switch_to_playing"
    /\ current_state' = "playing"

\* An input step whose reset was accepted by the debounce.
LevelRetried ==
    /\ calls' = calls + 1 /\ call'.op = "handle_game_input"
    /\ call'.reset_level /\ input_manager'.last_reset_time = now
    /\ now - input_manager.last_reset_time > RESET_DELAY

\* C20: on every level entry and on every retry the recorder's buffer is
\* emptied and the recording restarts with the current time as its origin
\* (a retry that also returns to the menu stops the new recording at once).
C20_EntryAndRetryRestartRecording ==
    [][(LevelEntered \/ LevelRetried)
          => /\ ghost_recorder'.frames = << >>
             /\ ghost_recorder'.start_time = now
             /\ ghost_recorder'.recording = (current_state' = "playing")]_vars

\* A retry after a tick, later than the entry: the frame of the tick is
\* gone and the origin is the time of the retry.
C20_Witness ==
    /\ current_state = "playing" /\ call.op = "handle_game_input" /\ call.reset_level
    /\ spaceship # None /\ spaceship.prev_x # 0
    /\ now > 0 /\ input_manager.last_reset_time = now
    /\ ghost_recorder = [frames |-> << >>, recording |-> TRUE, start_time |-> now]

(***************************************************************************)
(* Properties of ghost playback (behaviours of SpecPlayback)               *)
(***************************************************************************)
\* The indices of the frames that are due at elapsed time t.
DueFrames(frames, t) == { i \in 1..Len(frames) : frames[i].timestamp <= t }

\* The last frame in sequence order that is due, none if there is none.
NearestPastFrame(frames, t) ==
    IF DueFrames(frames, t) = {} THEN None
    ELSE frames[CHOOSE i \in DueFrames(frames, t) : \A j \in DueFrames(frames, t) : j <= i]

\* The step is a call of get_current_ghost_state.
SampleStep == probe'.op = "sample" /\ now' = now

\* C21: for playback data with non-decreasing timestamps, a call of
\* get_current_ghost_state at elapsed time t returns the last frame in
\* sequence order whose timestamp is <= t, and none when t is below the first
\* timestamp, when no frames are loaded or when playback is not running;
\* start_playback puts the cursor on the first frame and the playback clock
\* at zero.
C21_NearestPastFrame ==
    [][/\ SampleStep
            => probe'.frame =
                 IF ghost_playback.playing
                 THEN NearestPastFrame(ghost_playback.frames,
                                       now - ghost_playback.start_time)
                 ELSE None
       /\ (probe'.op = "start" /\ probe' # probe)
            => /\ ghost_playback'.playing
               /\ ghost_playback'.current_frame_index = 0
               /\ ghost_playback'.start_time = now]_vars

\* A sample skipped a frame with the same timestamp as the one it returned,
\* late in a playback that was started after the clock had moved.
C21_Witness ==
    /\ probe.op = "sample" /\ probe.frame # None
    /\ Len(ghost_playback.frames) = MaxFrames
    /\ probe.frame = ghost_playback.frames[2]
    /\ ghost_playback.frames[1].timestamp = ghost_playback.frames[2].timestamp
    /\ ghost_playback.frames[3].timestamp > now - ghost_playback.start_time
    /\ ghost_playback.start_time > 0

\* The cursor is an index (from 0) of the loaded frames, 0 if there are none.
ValidCursor(pb) ==
    /\ pb.current_frame_index >= 0
    /\ pb.current_frame_index < Max2(Len(pb.frames), 1)

\* C22: while a playback runs, no call of get_current_ghost_state made at a
\* later or equal clock value moves the cursor back, nothing but start and
\* stop moves it otherwise, and the cursor is always a valid index of the
\* loaded frames.
C22_CursorMonotonic ==
    [][/\ SampleStep
            => ghost_playback'.current_frame_index >= ghost_playback.current_frame_index
       /\ now' # now => ghost_playback' = ghost_playback
       /\ ValidCursor(ghost_playback')]_vars

\* A sample at the end of the clock has the cursor on the last frame of a
\* full recording.
C22_Witness ==
    /\ probe.op = "sample" /\ ghost_playback.playing
    /\ Len(ghost_playback.frames) = MaxFrames
    /\ ghost_playback.current_frame_index = MaxFrames - 1
    /\ probe.frame = ghost_playback.frames[MaxFrames]
    /\ now = MaxPlaybackNow

(***************************************************************************)
(* Properties of a recording played back (behaviours of Spec)              *)
(***************************************************************************)
StrictlyIncreasing(frames) ==
    \A i \in 1..(Len(frames) - 1) : frames[i].timestamp < frames[i + 1].timestamp

\* The pose of a frame.
Pose(f) == <<f.x, f.y, f.rotation>>

\* Sampling pb at the timestamps of frames k.. in turn gives the poses
\* recorded in them.
RECURSIVE SamplesReproduce(_, _, _)
SamplesReproduce(frames, pb, k) ==
    IF k > Len(frames) THEN TRUE
    ELSE /\ get_current_ghost_state(pb, pb.start_time + frames[k].timestamp).frame # None
         /\ Pose(get_current_ghost_state(pb, pb.start_time + frames[k].timestamp).frame)
               = Pose(frames[k])
         /\ SamplesReproduce(frames,
                get_current_ghost_state(pb, pb.start_time + frames[k].timestamp).playback,
                k + 1)

\* C23: exporting a recording, loading the export as playback data and
\* sampling at each original frame's timestamp returns, for every frame, the
\* x, y and rotation that were recorded.
C23_ExportRoundTrip ==
    (Len(ghost_recorder.frames) > 0 /\ StrictlyIncreasing(ghost_recorder.frames))
        => SamplesReproduce(ghost_recorder.frames,
                            start_playback(
                              load_playback_data(NewGhostPlayback,
                                                 export_playback_data(ghost_recorder)),
                              now),
                            1)

\* The tick updates the ghost: "if self.ghost_playback.is_playing() and
\* self.ghost".
GhostUpdated == PhysicsTick /\ ghost_playback.playing /\ ghost # None

\* The frame the playback is at when the tick runs.
FrameDue == NearestPastFrame(ghost_playback.frames, now - ghost_playback.start_time)

\* C24: after each ghost update the ghost is hidden if and only if playback
\* yielded no current frame; otherwise it is visible and its position and
\* rotation are exactly the x, y and rotation of the frame returned.
C24_GhostSnapsToFrame ==
    [][GhostUpdated
          => /\ ghost'.visible = (FrameDue # None)
             /\ FrameDue # None
                  => <<ghost'.x, ghost'.y, ghost'.rotation>> = Pose(FrameDue)]_vars

\* Two ghost updates in one attempt: the later one snapped the ghost to the
\* last frame of the best run.
C24_Witness ==
    /\ call.op = "update_gameplay" /\ ghost # None /\ ghost.visible
    /\ ghost_playback.playing /\ ghost_playback.current_frame_index = 1
    /\ Len(ghost_recorder.frames) = 2
    /\ <<ghost.x, ghost.y, ghost.rotation>> = Pose(DownloadedGhost[2])

\* A ghost update before the first frame of the best run was due.
C24_HiddenWitness ==
    /\ call.op = "update_gameplay" /\ ghost # None /\ ~ghost.visible
    /\ ghost_playback.playing /\ now = ghost_playback.start_time

(***************************************************************************)
(* Properties of the timer (behaviours of SpecTimer)                       *)
(***************************************************************************)
\* MM:SS.mmm written digit by digit.
FixedWidth(ms) ==
    << Ord("0") + ((ms \div 60000) \div 10), Ord("0") + ((ms \div 60000) % 10), Ord(":"),
       Ord("0") + (((ms \div 1000) % 60) \div 10), Ord("0") + (((ms \div 1000) % 60) % 10), Ord("."),
       Ord("0") + ((ms % 1000) \div 100), Ord("0") + (((ms % 1000) \div 10) % 10),
       Ord("0") + (ms % 10) >>

Below100Minutes(ms) == ms < 100 * 60 * 1000

Formatted == probe # NoTimes

\* C25: format_timer renders every elapsed time from 0 to 5,999,999 ms as
\* the nine characters MM:SS.mmm, zero-padded; 0 ms gives "00:00.000" and
\* 125999 ms gives "02:05.999".
C25_FixedWidthFormat ==
    Formatted
        => /\ Below100Minutes(probe.a) => probe.text_a = FixedWidth(probe.a)
           /\ probe.a = 0 => probe.text_a = <<48, 48, 58, 48, 48, 46, 48, 48, 48>>
           /\ probe.a = 125999 => probe.text_a = <<48, 50, 58, 48, 53, 46, 57, 57, 57>>

\* 125999 ms has been formatted.
C25_Witness == Formatted /\ probe.a = 125999 /\ Len(probe.text_a) = 9

\* C26: for elapsed times a and b below 100 minutes, a < b if and only if
\* format_timer(a) < format_timer(b) as strings.
C26_TextOrderIsTimeOrder ==
    (Formatted /\ Below100Minutes(probe.a) /\ Below100Minutes(probe.b))
        => ((probe.a < probe.b) <=> StrLess(probe.text_a, probe.text_b))

\* Two times whose order is decided by the tens of minutes against every
\* later digit.
C26_Witness ==
    /\ Formatted /\ probe.a = 599999 /\ probe.b = 600000
    /\ StrLess(probe.text_a, probe.text_b) /\ ~StrLess(probe.text_b, probe.text_a)

\* The step is a call of timer.start(), of timer.stop(), of update_gameplay().
StartStep == call'.op = "timer.start" /\ now' = now /\ probe' = probe

StopStep == call'.op = "timer.stop" /\ now' = now /\ probe' = probe

UpdateStep == call'.op = "update_gameplay" /\ now' = now /\ probe' = probe

\* C27: start() sets elapsed to 0 and takes a new origin; while the timer
\* runs each update sets elapsed to now minus origin; after stop(), and on
\* every tick while the level is completed, elapsed keeps its value whatever
\* updates and ticks follow, until the next start().
C27_Stopwatch ==
    [][/\ StartStep
            => timer' = [start_time |-> now, current_time |-> 0, is_running |-> TRUE]
       /\ StopStep
            => timer' = [timer EXCEPT !.is_running = FALSE]
       /\ (UpdateStep /\ timer.is_running)
            => timer' = [timer EXCEPT !.current_time = now - timer.start_time]
       /\ (UpdateStep /\ ~timer.is_running) => timer' = timer
       /\ ~(StartStep \/ StopStep \/ UpdateStep) => timer' = timer
       /\ update_gameplay(Completed, now, 1).self.timer = timer]_vars

\* A timer stopped with time on it; an update made after the clock had moved
\* on has left it alone.
C27_Witness ==
    /\ call.op = "update_gameplay" /\ ~timer.is_running
    /\ timer.current_time > 0
    /\ now > timer.start_time + timer.current_time

(***************************************************************************)
(* Properties of level entry and exit (behaviours of Spec)                 *)
(***************************************************************************)
\* A call of switch_to_playing in which a load failed.
EntryFailed ==
    /\ calls' = calls + 1 /\ call'.op = "switch_to_playing"
    /\ call'.level_info.file = None \/ ~call'.asset_found

\* C29: when loading the selected level or the ship asset fails,
\* switch_to_playing returns False and the state stays MENU; the timer and
\* the recording are not started for that attempt.
C29_FailedEntryStaysInMenu ==
    [][EntryFailed
          => /\ ~call'.returned
             /\ current_state = "menu" /\ current_state' = "menu"
             /\ timer' = timer
             /\ ghost_recorder' = ghost_recorder
             /\ ghost_playback' = ghost_playback]_vars

\* The level was loaded, the ship asset was not: the game is in the menu
\* after an earlier attempt, timer and recording as that attempt left them.
C29_Witness ==
    /\ call.op = "switch_to_playing" /\ ~call.returned /\ ~call.asset_found
    /\ call.level_info.file # None /\ current_level = call.level_info.file
    /\ current_state = "menu" /\ spaceship = None
    /\ ~ghost_recorder.recording /\ timer.is_running

(***************************************************************************)
(* Properties of the leaderboard and ghost store (behaviours of SpecBoard) *)
(***************************************************************************)
\* A reload of the leaderboard and the ghosts in which a request failed.
ReloadFailed ==
    calls' = calls + 1 /\ call'.op = "initialize_scoreboard" /\ ~call'.returned

\* Every entry of dict a is in dict b with the same value.
HeldIn(a, b) == \A k \in DOMAIN a : k \in DOMAIN b /\ b[k] = a[k]

\* C28: a failed leaderboard or ghost read is not propagated, and it
\* neither empties nor replaces what the leaderboard and the best ghosts
\* held in memory before it.
C28_FailureKeepsHeldData ==
    [][ReloadFailed
          => /\ raised' = "none"
             /\ HeldIn(scoreboard, scoreboard')
             /\ HeldIn(best_ghosts, best_ghosts')]_vars

\* An input step in play with back-to-menu held.
MenuAsked ==
    /\ calls' = calls + 1 /\ call'.op = "handle_game_input" /\ call'.back_to_menu
    /\ current_state = "playing"

\* A step in which something was put to the store.
StoreWritten == session'.puts # session.puts \/ session'.store # session.store

\* C30: returning to the menu during play discards the level, the ship and
\* the ghost and stops recording and playback; the store is written only by
\* handle_level_completion called while the level-completed flag is set.
C30_AbortedAttemptNotWritten ==
    [][/\ MenuAsked
          => /\ current_state' = "menu"
             /\ current_level' = None /\ spaceship' = None /\ ghost' = None
             /\ ~ghost_recorder'.recording /\ ~ghost_playback'.playing
             /\ ~level_completed'
             /\ ~StoreWritten
       /\ StoreWritten
          => call'.op = "handle_level_completion" /\ level_completed]_vars

\* A named player left a level with a ghost in mid-play after a tick was
\* recorded, and handle_level_completion was then awaited: it returned
\* False and nothing was put.
C30_Witness ==
    /\ call.op = "handle_level_completion" /\ ~call.returned
    /\ current_state = "menu" /\ selected_level = "Ryan Level"
    /\ current_level = None /\ spaceship = None /\ ghost = None
    /\ Len(ghost_recorder.frames) > 0 /\ ~ghost_recorder.recording
    /\ Len(ghost_playback.frames) > 0 /\ ~ghost_playback.playing
    /\ username # NoName
    /\ session.puts = 0

(***************************************************************************)
(* The shape of the footprint result (behaviours of Spec)                  *)
(***************************************************************************)
\* C37: every caller of the footprint check gets a result of the shape it
\* destructures: no tick and no rotation input ends in a ValueError.
C37_CallersGetTheirShape == raised # "ValueError"

(***************************************************************************)
(* The footprint scan and the map's edge (behaviours of SpecLevel)         *)
(***************************************************************************)
\* The categories the three flags of a footprint result stand for.
FlagCategory == <<"SOLID", "SPECIAL", "HAZARD">>

\* The queried sprite's box has no point in common with the map.
SpriteOutsideMap ==
    \/ probe.query.x >= Px(probe.level.width)
    \/ probe.query.y >= Px(probe.level.height)
    \/ probe.query.x + Px(probe.sprite.w) <= 0
    \/ probe.query.y + Px(probe.sprite.h) <= 0

\* The point under sprite pixel p, asked on its own, classifies as SOLID.
PointIsSolid(p) ==
    check_collision_at_point(probe.level, probe.query.x + Px(p[1]),
                             probe.query.y + Px(p[2])) = "SOLID"

\* C36: a flag of a footprint query is set only by a sprite pixel inside
\* the intersection of the sprite's box and the map, and a sprite wholly
\* outside the map sets no flag, although each of its points classifies as
\* SOLID when asked alone.
C36_OnlyTheIntersectionCounts ==
    FootprintQueried =>
        /\ \A i \in 1..3 :
              probe.query.result[i] =>
                  \E p \in PixelsOver(FlagCategory[i]) : probe.sprite.alpha[p] > 0
        /\ SpriteOutsideMap =>
              /\ probe.query.result = <<FALSE, FALSE, FALSE>>
              /\ \A p \in Cells(probe.sprite.w, probe.sprite.h) : PointIsSolid(p)

\* An opaque sprite hangs over the left edge of an all-white map: the pixel
\* off the map would classify as SOLID, and no flag is set.
C36_Witness ==
    /\ FootprintQueried
    /\ ~SpriteOutsideMap
    /\ probe.query.x = -Px(1) /\ probe.query.y = 0
    /\ probe.sprite.w = 2 /\ probe.sprite.h = 1
    /\ \A p \in Cells(probe.sprite.w, probe.sprite.h) : probe.sprite.alpha[p] = 255
    /\ probe.level.bg = White /\ DOMAIN probe.level.painted = {}
    /\ PointIsSolid(<<0, 0>>)
    /\ probe.query.result = <<FALSE, FALSE, FALSE>>

\* An opaque sprite lies wholly to the left of the map and no flag is set.
C36_OutsideWitness ==
    /\ FootprintQueried
    /\ probe.query.x + Px(probe.sprite.w) = 0
    /\ \A p \in Cells(probe.sprite.w, probe.sprite.h) : probe.sprite.alpha[p] = 255
    /\ probe.query.result = <<FALSE, FALSE, FALSE>>

(***************************************************************************)
(* Properties of the debounce (behaviours of SpecInput)                    *)
(***************************************************************************)
\* An accepted activation at the current time is more than delay after the
\* last accepted activation of the same input, if there was one.
WellAfter(last, delay) == \A t \in last : now - t > delay

MenuFrame == call'.op = "handle_menu_input" /\ now' = now

PlayFrame == call'.op = "handle_game_input" /\ now' = now /\ current_state = "playing"

\* C35: two accepted activations of the same input (reset 500 ms, select
\* 300 ms, navigate 200 ms with one clock for up and down) are more than
\* its delay apart, and a rejected activation leaves its clock unchanged.
C35_Debounce ==
    [][/\ (MenuFrame /\ current_state = "menu")
          => /\ call'.moved # "none" => WellAfter(probe.navigate, NAVIGATE_DELAY)
             /\ call'.moved = "none"
                => input_manager'.last_navigate_time = input_manager.last_navigate_time
             /\ call'.selected => WellAfter(probe.select, SELECT_DELAY)
             /\ ~call'.selected
                => input_manager'.last_select_time = input_manager.last_select_time
       /\ PlayFrame
          => /\ call'.reset => WellAfter(probe.reset, RESET_DELAY)
             /\ ~call'.reset
                => input_manager'.last_reset_time = input_manager.last_reset_time]_vars

\* Select was held on a missing level: accepted, then rejected exactly one
\* delay later, the selection clock still at the accepted time.
C35_Witness ==
    /\ call.op = "handle_menu_input" /\ call.select /\ ~call.selected
    /\ current_state = "menu"
    /\ probe.select = {now - SELECT_DELAY}
    /\ input_manager.last_select_time = now - SELECT_DELAY
    /\ probe.navigate # {}

(***************************************************************************)
(* The delta-time factor (behaviours of Spec)                              *)
(***************************************************************************)
\* C34: in a tick with delta-time factor d the gravity added to the
\* vertical velocity and the integration step are scaled by d (and so are
\* the thrust and the rotation step of the frame's input).
C34_DeltaScalesEveryStep ==
    [][PhysicsTick
          => /\ spaceship'.velocity_y
                  = spaceship.velocity_y + (GRAVITY * call'.delta_time)
             /\ spaceship'.x = spaceship.x + (spaceship'.velocity_x * call'.delta_time)
             /\ spaceship'.y = spaceship.y + (spaceship'.velocity_y * call'.delta_time)]_vars

(***************************************************************************)
(* The rotation micro-search (behaviours of SpecFlight)                    *)
(***************************************************************************)
\* The ship as the input step's thrust and rotation leave it, before any
\* collision check.
RotatedShip(c) == rotate(apply_thrust(spaceship, c.thrust), RotationAsked(c))

\* The candidates in probing order: along the velocity, then ring by ring.
SearchOrder(s) ==
    VelocityCandidates(s, MAX_SEARCH_DISTANCE) \o RingCandidates(s, MAX_SEARCH_DISTANCE)

\* The indices of the candidates at which ship s is free of solid.
FreeCandidates(level, s, cands) ==
    { k \in 1..Len(cands) : ~ShipOverlaps(level, s, cands[k][1], cands[k][2], "SOLID") }

\* Ship after stands at the first free candidate of ship s, free of solid
\* and at most the search bound away from where s stood.
MovedToFirstFree(level, s, cands, after) ==
    /\ \E k \in FreeCandidates(level, s, cands) :
          /\ \A j \in FreeCandidates(level, s, cands) : k <= j
          /\ <<after.x, after.y>> = cands[k]
    /\ ~ShipOverlaps(level, after, after.x, after.y, "SOLID")
    /\ Abs(after.x - s.x) <= Px(MAX_SEARCH_DISTANCE)
    /\ Abs(after.y - s.y) <= Px(MAX_SEARCH_DISTANCE)

\* An input step whose rotation turns the footprint into solid.
RotatesIntoSolid ==
    /\ SteerStep /\ RotationAsked(call') # 0
    /\ current_level # None /\ ~level_completed
    /\ ShipOverlaps(current_level, RotatedShip(call'), spaceship.x, spaceship.y, "SOLID")

\* C33: when a rotation makes the footprint overlap solid and some probed
\* candidate is free of solid, the ship is moved to the first such
\* candidate in probing order (velocity direction first, then the rings),
\* its footprint is then free of solid and it has moved at most the bound.
C33_MovedToFirstSafeCandidate ==
    [][(/\ RotatesIntoSolid
        /\ FreeCandidates(current_level, RotatedShip(call'),
                          SearchOrder(RotatedShip(call'))) # {})
          => /\ raised' = "none"
             /\ MovedToFirstFree(current_level, RotatedShip(call'),
                                 SearchOrder(RotatedShip(call')), spaceship')]_vars

(***************************************************************************)
(* Retrying a level (behaviours of Spec)                                   *)
(***************************************************************************)
\* The ship of manager r is the ship of manager m put back at the start:
\* start position, no velocity, rotation 0, the same image.
ShipPutBack(m, r) ==
    /\ r.spaceship.x = Px(START_X_OFFSET - (m.spaceship.original_image.w \div 2))
    /\ r.spaceship.y = Px(START_Y)
    /\ r.spaceship.velocity_x = 0 /\ r.spaceship.velocity_y = 0
    /\ r.spaceship.rotation = 0
    /\ r.spaceship.original_image = m.spaceship.original_image

\* Manager r is manager m after a retry at time t: the ship put back, the
\* flag cleared, the timer running from 0 and the ghost of the level, if
\* there is one, playing from its first frame.
Retried(m, r, t) ==
    /\ ShipPutBack(m, r)
    /\ ~r.level_completed
    /\ r.timer = [start_time |-> t, current_time |-> 0, is_running |-> TRUE]
    /\ r.current_level = m.current_level /\ r.current_state = m.current_state
    /\ Len(BestGhostOf(m, m.selected_level)) > 0
          => /\ r.ghost_playback.playing
             /\ r.ghost_playback.current_frame_index = 0
             /\ r.ghost_playback.start_time = t
             /\ r.ghost_playback.frames = BestGhostOf(m, m.selected_level)

\* C31: from every reachable play state, completed or not,
\* reset_current_level puts the existing ship back at the start with no
\* velocity and rotation 0, clears the level-completed flag, restarts the
\* timer from 0 and restarts the ghost playback from its first frame.
C31_RetryResetsInPlace ==
    (current_state = "playing" /\ spaceship # None /\ current_level # None)
        => /\ Retried(Self, reset_current_level(Self, now), now)
           /\ Retried(Completed, reset_current_level(Completed, now), now)

\* A retry was accepted after the ship had fallen for a tick, on a level
\* with a ghost: the ship is back at the start, the timer at 0, the ghost
\* on its first frame.
C31_Witness ==
    /\ call.op = "handle_game_input" /\ call.reset_level
    /\ ~call.thrust /\ ~call.rotate_left /\ ~call.rotate_right /\ ~call.back_to_menu
    /\ input_manager.last_reset_time = now /\ now > RESET_DELAY
    /\ current_state = "playing"
    /\ spaceship.y = Px(START_Y) /\ spaceship.velocity_y = 0
    /\ spaceship.prev_y = Px(START_Y)
    /\ timer = [start_time |-> now, current_time |-> 0, is_running |-> TRUE]
    /\ ghost_playback.playing /\ ghost_playback.current_frame_index = 0
    /\ Len(ghost_playback.frames) > 0
    /\ ghost_recorder.frames = << >>

(***************************************************************************)
(* Completed runs: the leaderboard and the best ghosts over several        *)
(* attempts                                                                *)
(***************************************************************************)
MaxRunNow == 2000

RunStep == 1000

\* What the store holds when the game starts: no leaderboard entry, one of
\* another player, or one of this player; and the Ryan Level ghost or none.
CompletionStores ==
    { (ScoreboardUrl :> board) @@ (best_ghost_urls[1].url :> ryan)
        @@ [u \in {best_ghost_urls[2].url, best_ghost_urls[3].url} |-> << >>] :
      board \in { << >>,
                  ("Ryan Level" :> ("bob" :> format_timer(61001))),
                  ("Ryan Level" :> ("ann" :> format_timer(500))) },
      ryan \in { << >>, ("Ryan Level" :> DownloadedGhost) } }

CompletionInit ==
    /\ probe = None
    /\ screen = <<LEVEL_WIDTH, LEVEL_HEIGHT>>
    /\ current_state = "menu"
    /\ current_level = None
    /\ spaceship = None
    /\ selected_level = NoName
    /\ level_completed = FALSE
    /\ ghost_recorder = NewGhostRecorder
    /\ ghost_playback = NewGhostPlayback
    /\ ghost = None
    /\ timer = NewGameTimer
    /\ input_manager = NewInputManager
    /\ best_ghosts = << >>
    /\ scoreboard = << >>
    /\ username = NoName
    /\ menu_state = None
    /\ \E store \in CompletionStores : session = [store |-> store, puts |-> 0]
    /\ now = 0
    /\ call = NoCall
    /\ raised = "none"
    /\ calls = 0

\* pygame.time.get_ticks() moves on during an attempt.
RunClock ==
    /\ current_state = "playing"
    /\ ~level_completed
    /\ now + RunStep <= MaxRunNow
    /\ now' = now + RunStep
    /\ UNCHANGED <<probe, screen, current_state, current_level, spaceship,
                   selected_level, level_completed, ghost_recorder, ghost_playback,
                   ghost, timer, input_manager, best_ghosts, scoreboard, username,
                   menu_state, session, call, raised, calls>>

\* The ship reaches the goal: the timer as the tick before left it (line
\* 341) and lines 281-287 of update_gameplay, the branch of a special
\* collision.  The unpacking of line 277 raises before that branch, so the
\* branch is entered here by itself.
GoalReached ==
    /\ current_state = "playing"
    /\ ~level_completed
    /\ spaceship # None
    /\ Becomes(resolve_collision(UpdateTimer(Self, now), now, FALSE, TRUE).self)
    /\ call' = [op |-> "goal_reached"]
    /\ raised' = "none"
    /\ UNCHANGED <<probe, now, session, calls>>

CompletionNext ==
    \/ InitializeScoreboard \/ SetUsername \/ BoardEnter \/ BoardInput
    \/ BoardTick \/ RunClock \/ GoalReached \/ HandleLevelCompletion

SpecCompletion == CompletionInit /\ [][CompletionNext]_vars

RemoteBoard(sess) == sess.store[ScoreboardUrl]

CompletionHandled ==
    calls' = calls + 1 /\ call'.op = "handle_level_completion"

\* The step before was a call of handle_level_completion in which neither
\* the leaderboard get nor the leaderboard put failed.
HandledBefore ==
    call.op = "handle_level_completion" /\ call.fails \cap {1, 2} = {}

\* The step wrote nothing and left the leaderboard and the best ghosts as
\* they were.
NothingWritten ==
    /\ session' = session
    /\ scoreboard' = scoreboard
    /\ best_ghosts' = best_ghosts

\* C40: a call of handle_level_completion that follows one whose
\* leaderboard update succeeded writes nothing and leaves the leaderboard
\* and the best ghosts unchanged; so does any call made while the level is
\* not completed, which returns False.
C40_CompletionIdempotent ==
    [][CompletionHandled =>
          /\ (level_completed /\ HandledBefore) => NothingWritten
          /\ ~level_completed
               => NothingWritten /\ ~call'.returned /\ ~level_completed']_vars

\* The second call for a run whose first call wrote the time and the ghost.
C40_Witness ==
    /\ calls = 3
    /\ level_completed
    /\ call.op = "handle_level_completion"
    /\ call.fails = {1}
    /\ call.returned
    /\ session.puts = 2
    /\ username # NoName
    /\ scoreboard[selected_level][username] = format_timer(timer.current_time)

(***************************************************************************)
(* Two clients update the leaderboard: update_scoreboard_api step by step  *)
(***************************************************************************)
RaceClients == {"c1", "c2"}

RaceLevels == {"Ryan Level", "John Level"}

RaceUsers == {"ann", "bob"}

RaceTimes == {format_timer(1000), format_timer(2000)}

\* What the leaderboard bin holds before the two calls.
RaceBoards ==
    { << >>,
      ("Ryan Level" :> ("bob" :> format_timer(61001))),
      ("Ryan Level" :> (("ann" :> format_timer(3000)) @@ ("bob" :> format_timer(61001))))
        @@ ("John Level" :> ("bob" :> format_timer(62000))) }

\* A client that has not called update_scoreboard_api yet.
IdleClient ==
    [pc |-> "idle", level_name |-> NoName, user |-> NoName, time |-> << >>,
     fresh |-> << >>, fetched_at |-> 0, wrote |-> FALSE, returned |-> << >>]

\* Each client is a GameStateManager as constructed; probe holds where each
\* one stands in its call, session is the store both reach.
RaceInit ==
    /\ probe = [c \in RaceClients |-> IdleClient]
    /\ screen = <<LEVEL_WIDTH, LEVEL_HEIGHT>>
    /\ current_state = "menu"
    /\ current_level = None
    /\ spaceship = None
    /\ selected_level = NoName
    /\ level_completed = FALSE
    /\ ghost_recorder = NewGhostRecorder
    /\ ghost_playback = NewGhostPlayback
    /\ ghost = None
    /\ timer = NewGameTimer
    /\ input_manager = NewInputManager
    /\ best_ghosts = << >>
    /\ scoreboard = << >>
    /\ username = NoName
    /\ menu_state = None
    /\ \E board \in RaceBoards :
          session = [store |-> (ScoreboardUrl :> board), puts |-> 0]
    /\ now = 0
    /\ call = NoCall
    /\ raised = "none"
    /\ calls = 0

\* update_scoreboard_api up to the end of "await self.session.get(...)"
\* (line 82): the client holds the leaderboard it fetched, or the get
\* raised and the call returns self.scoreboard.
RaceGet(c) ==
    /\ probe[c].pc = "idle"
    /\ \E level_name \in RaceLevels, user \in RaceUsers, time \in RaceTimes,
          fails \in {{}, {1}} :
          probe' = [probe EXCEPT ![c] =
             IF GetRaises(session, ScoreboardUrl, 1, fails)
             THEN [pc |-> "done", level_name |-> level_name, user |-> user,
                   time |-> time, fresh |-> << >>, fetched_at |-> session.puts,
                   wrote |-> FALSE,
                   returned |-> update_scoreboard_api(Self, session, level_name, user,
                                                      time, fails).returned]
             ELSE [pc |-> "fetched", level_name |-> level_name, user |-> user,
                   time |-> time, fresh |-> session.store[ScoreboardUrl],
                   fetched_at |-> session.puts, wrote |-> FALSE, returned |-> << >>]]
    /\ UNCHANGED gameVars

\* The rest of update_scoreboard_api (lines 84-92): the new score is set in
\* the fetched leaderboard, which is put and returned, or the put raises and
\* the call returns self.scoreboard.
RacePut(c) ==
    /\ probe[c].pc = "fetched"
    /\ \E fails \in {{}, {2}} :
          IF 2 \in fails
          THEN /\ probe' = [probe EXCEPT ![c].pc = "done",
                                         ![c].returned = scoreboard]
               /\ UNCHANGED gameVars
          ELSE /\ probe' = [probe EXCEPT
                              ![c].pc = "done",
                              ![c].wrote = TRUE,
                              ![c].returned = WithScore(probe[c].fresh, probe[c].level_name,
                                                        probe[c].user, probe[c].time)]
               /\ session' = session_put(session, ScoreboardUrl,
                                         WithScore(probe[c].fresh, probe[c].level_name,
                                                   probe[c].user, probe[c].time))
               /\ UNCHANGED <<screen, current_state, current_level, spaceship,
                              selected_level, level_completed, ghost_recorder,
                              ghost_playback, ghost, timer, input_manager, best_ghosts,
                              scoreboard, username, menu_state, now, call, raised, calls>>

RaceNext == \E c \in RaceClients : RaceGet(c) \/ RacePut(c)

SpecRace == RaceInit /\ [][RaceNext]_vars

(***************************************************************************)
(* C32                                                                     *)
(***************************************************************************)
\* The time a leaderboard holds for (level_name, user): {} or {time}.
EntryOf(board, level_name, user) ==
    IF level_name \in DOMAIN board /\ user \in DOMAIN board[level_name]
    THEN {board[level_name][user]}
    ELSE {}

\* This step is the put of client c, and it succeeded.
PutBy(c) == probe[c].pc = "fetched" /\ probe'[c].wrote

\* No other put came between the get and the put of client c.
SingleWriter(c) == probe[c].fetched_at = session.puts

\* Client o fetched the same leaderboard as client c, put its own update
\* first, and updated another entry than c does.
PutFirst(o, c) ==
    /\ o # c
    /\ probe[o].wrote
    /\ probe[o].fetched_at = probe[c].fetched_at
    /\ <<probe[o].level_name, probe[o].user>> # <<probe[c].level_name, probe[c].user>>

\* C32: a put that succeeds leaves the store holding the blob the client
\* fetched with its one entry set: every other (level, user) entry of the
\* fetched blob is unchanged, and with a single writer the outcome is that
\* of update_scoreboard_api run in one piece.  When another client fetched
\* the same blob and put first, the store ends as the later put's blob and
\* the earlier client's new entry is not in it.
C32_FetchModifyPut ==
    [][\A c \in RaceClients :
          PutBy(c) =>
            /\ \A level_name \in DOMAIN probe[c].fresh :
                  \A user \in DOMAIN probe[c].fresh[level_name] :
                     <<level_name, user>> # <<probe[c].level_name, probe[c].user>>
                        => EntryOf(RemoteBoard(session'), level_name, user)
                              = {probe[c].fresh[level_name][user]}
            /\ EntryOf(RemoteBoard(session'), probe[c].level_name, probe[c].user)
                  = {probe[c].time}
            /\ SingleWriter(c)
                  => session' = update_scoreboard_api(Self, session, probe[c].level_name,
                                                      probe[c].user, probe[c].time,
                                                      {}).session
            /\ \A o \in RaceClients :
                  PutFirst(o, c)
                     => /\ RemoteBoard(session') = probe'[c].returned
                        /\ probe[o].time
                              \notin EntryOf(RemoteBoard(session'), probe[o].level_name,
                                             probe[o].user)]_vars

\* Both clients fetched before either put, both puts succeeded, and the
\* store holds the second put's blob without the first client's entry.
C32_Witness ==
    \E o, c \in RaceClients :
       /\ o # c
       /\ probe[o].wrote /\ probe[c].wrote
       /\ probe[o].fetched_at = 0 /\ probe[c].fetched_at = 0
       /\ session.puts = 2
       /\ RemoteBoard(session) = probe[c].returned
       /\ DOMAIN probe[c].fresh # {}
       /\ EntryOf(RemoteBoard(session), probe[o].level_name, probe[o].user) = {}
       /\ EntryOf(probe[o].returned, probe[o].level_name, probe[o].user) = {probe[o].time}

====
